---- MODULE Spec2Model ----
(***************************************************************************)
(* State-machine model of the recipe_journal Django application:           *)
(* the relational store (Member, Recipe, Ingredient, RecipeIngredient,     *)
(* collection entries), the session, and the request handlers of           *)
(* views/web.py, views/api.py and utils/utils.py with the forms of         *)
(* forms.py that validate their input.                                     *)
(***************************************************************************)
EXTENDS Integers, Sequences, FiniteSets, TLC

VARIABLES
    members,         \* Member table: id -> [username, password]
    friends,         \* Member.friends: set of directed pairs <<from id, to id>>
    recipes,         \* Recipe table: id -> [title, category]
    ingredients,     \* Ingredient table: set of rows [id, name]
    recipe_ingredient, \* RecipeIngredient rows: set of [id, recipe, ingredient],
                     \* recipe being the Recipe the row is attached to
    next_ri_id,      \* next primary key of the RecipeIngredient table
    entries,         \* collection entries: set of [id, collection_name, member, recipe, saving_date]
    next_entry_id,   \* next primary key of the collection entry table
    logged_user_id,  \* request.session["logged_user_id"], NoUser when absent
    today,           \* date.today()
    response,        \* the last request and the response it got
    pc,              \* concurrent add requests: position of each worker
    req,             \* concurrent add requests: the request and locals of each worker
    media            \* a Recipe object and its image: the object's pk and image
                     \* field, the image column of its row, the files of the
                     \* storage and the calls of compress_image per uploaded file

vars == <<members, friends, recipes, ingredients, recipe_ingredient, next_ri_id,
          entries, next_entry_id, logged_user_id, today, response, pc, req, media>>

store == <<members, friends, recipes, ingredients, recipe_ingredient, next_ri_id,
           entries, next_entry_id>>

-----------------------------------------------------------------------------
(* Bounds of the model *)

MaxDate == 2          \* dates are 1..MaxDate
MaxEntryId == 2       \* no insert of a collection entry past this primary key
MaxRecipes == 2       \* no Recipe insert past this primary key
MaxMembers == 3       \* no Member insert past this primary key
MaxSaves == 4         \* calls of Recipe.save on the Recipe object
MaxWorkers == 2       \* concurrent add requests in flight

Dates == 1..MaxDate
Workers == 1..MaxWorkers

-----------------------------------------------------------------------------
(* Input alphabets *)

NoUser == 0                \* get_logged_user returns None
MissingId == 0             \* an id parameter missing from the request
NoSuchId == 99             \* a numeric id that references no row
BadId == -1                \* an id parameter that is not a number ("abc")
NoDate == 0                \* a date parameter missing from the request
NoValue == "none"          \* a text parameter missing from the request
UnknownCollection == "unvalid_collection_name"

COLLECTIONS == {"album", "history", "trials"}
Usernames == {"alice", "bob", "carol"}
Passwords == {"pw1", "pw2"}
Salts == {"s1", "s2"}
Titles == {"tarte", "soupe"}
Categories == {"entree", "plat", "dessert"}
IngredientNames == {"carotte", "sel"}

MemberIds == DOMAIN members
RecipeIds == DOMAIN recipes

-----------------------------------------------------------------------------
(* Messages of the responses *)

MSG_ADDED == "La recette a ete ajoutee a votre collection."
MSG_ALREADY == "La recette fait deja partie de votre collection."
MSG_REMOVED == "La recette a ete supprimee de votre collection."
MSG_NOT_PART == "La recette ne fait pas partie de votre collection."
MSG_NO_USER == "Aucun utilisateur connecte."
MSG_NO_RECIPE_ID == "ID de recette manquant."
MSG_NO_COLLECTION == "Nom de la collection manquant."
MSG_UNKNOWN_COLLECTION == "Le modele est inconnu."
MSG_INVALID_ACTION == "Une erreur est survenue: 'Action non valide'."
MSG_ERROR == "Une erreur est survenue."
MSG_LOGIN_ERROR == "Identifiant ou mot de passe errone."
MSG_USERNAME_TAKEN == "Identifiant non disponible."
MSG_WRONG_FORMER_PASSWORD == "Ancien mot de passe errone."
MSG_PASSWORD_MISMATCH == "Les nouveaux mots de passe ne correspondent pas."
MSG_REQUIRED == "This field is required."
MSG_ALREADY_IN_HISTORY == "La recette fait deja partie de votre historique pour la date."
MSG_INVALID_CHOICE == "Select a valid choice."
MSG_NO_SELECTION == "Vous devez cocher au moins une option."
MSG_TITLE_TAKEN == "Titre deja utilise."
MSG_OK == ""
MSG_METHOD_NOT_ALLOWED == "Methode non autorisee"
MSG_NO_MODEL == "Modele de collection manquant."
MSG_RECIPE_FILED == "Recette ajoutee a votre "
MSG_FRIEND_ADDED == "Nous avons ajoute l'utilisateur a votre liste d'amis !"
MSG_NO_SUCH_USER == "Aucun utilisateur trouve avec l'identifiant."
MSG_ALREADY_FRIEND == "L'utilisateur fait deja partie de vos amis."
MSG_FRIEND_REMOVED == "L'utilisateur a ete retire de votre liste d'amis."
MSG_NOT_FRIEND == "L'utilisateur ne fait pas partie de votre liste d'amis."
MSG_NOTHING_TO_REMOVE == "Aucun utilisateur a supprimer."

\* The last request (op and its parameters) with the response it got.
Response(op, status, message, cn, member, recipe, date) ==
    [op |-> op, status |-> status, message |-> message,
     collection_name |-> cn, member |-> member, recipe |-> recipe, date |-> date]

NoResponse == Response("none", 200, MSG_OK, NoValue, NoUser, MissingId, NoDate)

\* A request turned down before it reached the store: status and message only.
Rejected(op, status, message) ==
    Response(op, status, message, NoValue, NoUser, MissingId, NoDate)

-----------------------------------------------------------------------------
(* Password hashing (django.contrib.auth.hashers) *)

\* a make_password that stores the raw password
make_password_plain(raw, salt) == raw

\* make_password: the encoded value "algorithm$salt$digest"; the digest is
\* modelled by the salted raw password, so the encoding is injective in
\* (raw, salt) and is never a raw password.
make_password(raw, salt) ==
    "pbkdf2_sha256$" \o salt \o "$" \o raw

\* check_password: re-encodes the raw password with the salt of the stored
\* value and compares
check_password(raw, encoded) ==
    \E salt \in Salts : encoded = make_password(raw, salt)

-----------------------------------------------------------------------------
(* Session *)

get_logged_user ==
    IF logged_user_id # NoUser THEN logged_user_id ELSE NoUser

-----------------------------------------------------------------------------
(* Collection entries *)

Entry(id, cn, m, r, d) ==
    [id |-> id, collection_name |-> cn, member |-> m, recipe |-> r, saving_date |-> d]

\* RecipeCollectionEntry.objects.filter(collection_name=, member=, recipe_id=)
FilterEntries(cn, m, r) ==
    {e \in entries : e.collection_name = cn /\ e.member = m /\ e.recipe = r}

\* ...filter(collection_name="history", member=, recipe=, saving_date=)
FilterHistory(m, r, d) ==
    {e \in FilterEntries("history", m, r) : e.saving_date = d}

\* get_or_create that inserts without looking the row up first
get_or_create_blind(cn, m, r) ==
    IF r = BadId THEN "ValueError"
    ELSE IF r \notin RecipeIds THEN "IntegrityError"
    ELSE "created"

\* QuerySet.get_or_create(collection_name=, member=, recipe_id=): the outcome
\* of the lookup, and of the insert when the lookup finds nothing.
get_or_create(cn, m, r) ==
    IF r = BadId THEN "ValueError"
    ELSE IF Cardinality(FilterEntries(cn, m, r)) = 1 THEN "found"
    ELSE IF Cardinality(FilterEntries(cn, m, r)) > 1 THEN "MultipleObjectsReturned"
    ELSE IF r \notin RecipeIds THEN "IntegrityError"
    ELSE "created"

\* RecipeCollectionEntry.objects.create(...): saving_date defaults to today
InsertEntries(new) ==
    /\ entries' = entries \cup new
    /\ next_entry_id' = next_entry_id + Cardinality(new)

\* a remove branch that also filters on today's saving date
DeleteSelection_today(cn, m, r) ==
    {e \in FilterEntries(cn, m, r) : e.saving_date = today}

\* QuerySet.delete() of the rows selected by the remove branch
DeleteSelection(cn, m, r) ==
    FilterEntries(cn, m, r)

-----------------------------------------------------------------------------
(* utils.check_request_validity: "ok" or the message of the 400 response *)

check_request_validity(recipe_id, cn) ==
    IF get_logged_user = NoUser THEN MSG_NO_USER
    ELSE IF recipe_id = MissingId THEN MSG_NO_RECIPE_ID
    ELSE IF cn = NoValue THEN MSG_NO_COLLECTION
    ELSE IF cn \notin COLLECTIONS THEN MSG_UNKNOWN_COLLECTION
    ELSE "ok"

(* utils.update_collection(request, action) *)
update_collection(action, recipe_id, cn) ==
    LET user == get_logged_user
        validity == check_request_validity(recipe_id, cn)
        Reply(status, message) ==
            Response(action, status, message, cn, user, recipe_id, NoDate)
    IN
    /\ UNCHANGED <<members, friends, recipes, ingredients, recipe_ingredient,
                   next_ri_id, logged_user_id, today, pc, req, media>>
    /\ IF validity # "ok" THEN
           /\ response' = Rejected(action, 400, validity)
           /\ UNCHANGED <<entries, next_entry_id>>
       ELSE IF action = "add" THEN
           LET outcome == get_or_create(cn, user, recipe_id) IN
           IF outcome = "created" THEN
               /\ next_entry_id <= MaxEntryId
               /\ InsertEntries({Entry(next_entry_id, cn, user, recipe_id, today)})
               /\ response' = Reply(200, MSG_ADDED)
           ELSE IF outcome = "found" THEN
               /\ response' = Reply(200, MSG_ALREADY)
               /\ UNCHANGED <<entries, next_entry_id>>
           ELSE
               /\ response' = Reply(500, MSG_ERROR)
               /\ UNCHANGED <<entries, next_entry_id>>
       ELSE IF action = "remove" THEN
           IF recipe_id = BadId THEN
               /\ response' = Reply(500, MSG_ERROR)
               /\ UNCHANGED <<entries, next_entry_id>>
           ELSE
               /\ entries' = entries \ DeleteSelection(cn, user, recipe_id)
               /\ response' = Reply(200,
                      IF Cardinality(DeleteSelection(cn, user, recipe_id)) > 0
                      THEN MSG_REMOVED ELSE MSG_NOT_PART)
               /\ UNCHANGED next_entry_id
       ELSE
           /\ response' = Rejected(action, 400, MSG_INVALID_ACTION)
           /\ UNCHANGED <<entries, next_entry_id>>

-----------------------------------------------------------------------------
(* History routes of views/api.py *)

\* CreateRecipeHistoryForm.clean without the lookup of the date
CreateRecipeHistoryForm_clean_no_lookup(m, r, d) ==
    IF m \notin MemberIds \/ r \notin RecipeIds THEN MSG_INVALID_CHOICE
    ELSE IF d = NoDate THEN MSG_REQUIRED
    ELSE "ok"

\* CreateRecipeHistoryForm.is_valid: "ok" or the first error. member and
\* recipe are ModelChoiceFields, saving_date is a required DateField, and
\* clean() rejects a (member, recipe, saving_date) already in the history.
CreateRecipeHistoryForm_clean(m, r, d) ==
    IF m \notin MemberIds \/ r \notin RecipeIds THEN MSG_INVALID_CHOICE
    ELSE IF d = NoDate THEN MSG_REQUIRED
    ELSE IF FilterHistory(m, r, d) # {} THEN MSG_ALREADY_IN_HISTORY
    ELSE "ok"

\* api.add_recipe_history on a POST request
add_recipe_history(m, r, d) ==
    LET validity == CreateRecipeHistoryForm_clean(m, r, d) IN
    /\ UNCHANGED <<members, friends, recipes, ingredients, recipe_ingredient,
                   next_ri_id, logged_user_id, today, pc, req, media>>
    /\ IF validity = "ok" THEN
           /\ next_entry_id <= MaxEntryId
           /\ InsertEntries({Entry(next_entry_id, "history", m, r, d)})
           /\ response' = Response("add_recipe_history", 200, "success", "history", m, r, d)
       ELSE
           /\ response' = Response("add_recipe_history", 200, validity, "history", m, r, d)
           /\ UNCHANGED <<entries, next_entry_id>>

\* DeleteRecipeHistoryForm.date_choices: the dates of the member's history
\* entries of the recipe
date_choices(m, r) ==
    {e.saving_date : e \in FilterEntries("history", m, r)}

\* a delete that forgets the saving_date filter
DatedSelection_all_dates(m, r, d) ==
    FilterEntries("history", m, r)

\* the rows remove_recipe_history deletes for a valid form
DatedSelection(m, r, d) ==
    FilterHistory(m, r, d)

\* api.remove_recipe_history on a POST request
remove_recipe_history(m, r, d) ==
    LET Reply(status, message) ==
            Response("remove_recipe_history", status, message, "history", m, r, d)
    IN
    /\ UNCHANGED <<members, friends, recipes, ingredients, recipe_ingredient,
                   next_ri_id, next_entry_id, logged_user_id, today, pc, req, media>>
    /\ IF m = MissingId \/ r = MissingId THEN
           /\ response' = Rejected("remove_recipe_history", 400, "Missing parameters")
           /\ UNCHANGED entries
       ELSE IF m \notin MemberIds \/ r \notin RecipeIds THEN
           /\ response' = Rejected("remove_recipe_history", 404, "Not Found")
           /\ UNCHANGED entries
       ELSE IF d \in date_choices(m, r) THEN
           /\ entries' = entries \ DatedSelection(m, r, d)
           /\ response' = Reply(200,
                  IF Cardinality(DatedSelection(m, r, d)) > 0
                  THEN "success" ELSE MSG_ERROR)
       ELSE
           /\ response' = Reply(200, MSG_INVALID_CHOICE)
           /\ UNCHANGED entries

-----------------------------------------------------------------------------
(* web.add_recipe *)

COLLECTION_ORDER == <<"album", "history", "trials">>

\* a RecipeMainSubForm without clean_title
RecipeMainSubForm_clean_any_title(title, category) ==
    IF title = "" THEN MSG_REQUIRED
    ELSE IF category \notin Categories THEN MSG_INVALID_CHOICE
    ELSE "ok"

\* RecipeMainSubForm: title required and unused, category one of the choices
RecipeMainSubForm_clean(title, category) ==
    IF title = "" THEN MSG_REQUIRED
    ELSE IF \E id \in RecipeIds : recipes[id].title = title THEN MSG_TITLE_TAKEN
    ELSE IF category \notin Categories THEN MSG_INVALID_CHOICE
    ELSE "ok"

\* utils.get_recipe_ingredient_form_list + RecipeIngredientForm.is_valid:
\* no ingredient line gives one unbound form, which is not valid; a line is
\* valid when its name is filled in (quantity and unit are sent with it).
ingredient_forms_valid(lines) ==
    /\ Len(lines) > 0
    /\ \A i \in 1..Len(lines) : lines[i] # ""

\* AddRecipeToCollectionsForm.clean: at least one box ticked
AddRecipeToCollectionsForm_clean(selection) ==
    IF selection = {} THEN MSG_NO_SELECTION ELSE "ok"

\* a create_recipe_collection_entry that files into the album only
create_recipe_collection_entry_album_only(selection, cn) ==
    cn \in selection /\ cn = "album"

\* utils.create_recipe_collection_entry: True, and an entry created, iff the
\* box of the collection is ticked in the cleaned form
create_recipe_collection_entry(selection, cn) ==
    cn \in selection

\* the collections utils.add_recipe_to_collections creates an entry in
CreatedIn(selection) ==
    {cn \in COLLECTIONS : create_recipe_collection_entry(selection, cn)}

\* the confirmations utils.add_recipe_to_collections emits, one per entry
\* created, in the order of MODEL_COLLECTION_CHOICES
RECURSIVE Confirmations(_, _)
Confirmations(selection, i) ==
    IF i > Len(COLLECTION_ORDER) THEN <<>>
    ELSE (IF create_recipe_collection_entry(selection, COLLECTION_ORDER[i])
          THEN <<MSG_RECIPE_FILED \o COLLECTION_ORDER[i]>> ELSE <<>>)
         \o Confirmations(selection, i + 1)

\* position of a selected collection among the selected ones, in the order
\* add_recipe_to_collections walks MODEL_COLLECTION_CHOICES
Rank(cn, selection) ==
    Cardinality({i \in 1..Len(COLLECTION_ORDER) :
                    /\ COLLECTION_ORDER[i] \in selection
                    /\ \E j \in i..Len(COLLECTION_ORDER) : COLLECTION_ORDER[j] = cn})

\* an Ingredient insert for every line, whatever the table holds
Ingredient_create(table, name) ==
    table \cup {[id |-> Cardinality(table) + 1, name |-> name]}

\* Ingredient.objects.get_or_create(name=name) in RecipeIngredientForm.save:
\* the table after the call (no row is ever deleted, so ids are 1..size)
Ingredient_get_or_create(table, name) ==
    IF \E row \in table : row.name = name THEN table
    ELSE table \cup {[id |-> Cardinality(table) + 1, name |-> name]}

\* the Ingredient table after saving the ingredient forms one after the other
RECURSIVE SavedIngredients(_, _)
SavedIngredients(table, lines) ==
    IF lines = <<>> THEN table
    ELSE SavedIngredients(Ingredient_get_or_create(table, Head(lines)), Tail(lines))

\* the row get_or_create hands back for a name: the one it found or created
IngredientNamed(table, name) ==
    CHOOSE id \in {row.id : row \in table} :
        /\ \E row \in table : row.id = id /\ row.name = name
        /\ \A row \in table : row.name = name => id <= row.id

\* RecipeIngredient rows attached to a recipe
RecipeIngredientsOf(recipe_id) ==
    {row \in recipe_ingredient : row.recipe = recipe_id}

add_recipe(title, category, lines, selection) ==
    LET user == get_logged_user
        new_id == Cardinality(RecipeIds) + 1
        \* utils.are_forms_valid(*ingredient forms, recipe_form, recipe_action_form)
        error == IF ~ingredient_forms_valid(lines) THEN MSG_REQUIRED
                 ELSE IF RecipeMainSubForm_clean(title, category) # "ok"
                      THEN RecipeMainSubForm_clean(title, category)
                 ELSE AddRecipeToCollectionsForm_clean(selection)
        Reply(status, message, rid) ==
            Response("add_recipe", status, message, NoValue, user, rid, NoDate)
        \* the reply of a saved recipe carries the confirmations emitted
        Saved(rid) ==
            [op |-> "add_recipe", status |-> 302, message |-> "/show-confirmation-page",
             collection_name |-> NoValue, member |-> user, recipe |-> rid, date |-> NoDate,
             emitted |-> Confirmations(selection, 1)]
    IN
    /\ UNCHANGED <<members, friends, logged_user_id, today, pc, req, media>>
    /\ IF user = NoUser THEN
           /\ response' = Reply(302, "/login", MissingId)
           /\ UNCHANGED <<recipes, ingredients, recipe_ingredient, next_ri_id,
                          entries, next_entry_id>>
       ELSE IF error # "ok" THEN
           /\ response' = Reply(200, error, MissingId)
           /\ UNCHANGED <<recipes, ingredients, recipe_ingredient, next_ri_id,
                          entries, next_entry_id>>
       ELSE
           /\ new_id <= MaxRecipes
           /\ next_entry_id + Cardinality(CreatedIn(selection)) - 1 <= MaxEntryId
           /\ recipes' = [id \in RecipeIds \cup {new_id} |->
                             IF id = new_id
                             THEN [title |-> title, category |-> category]
                             ELSE recipes[id]]
           \* utils.save_recipe_and_ingredients: one RecipeIngredientForm.save
           \* and one recipe.recipe_ingredient.add per form
           /\ ingredients' = SavedIngredients(ingredients, lines)
           /\ recipe_ingredient' = recipe_ingredient \cup
                  {[id |-> next_ri_id + i - 1, recipe |-> new_id,
                    ingredient |-> IngredientNamed(ingredients', lines[i])] :
                      i \in 1..Len(lines)}
           /\ next_ri_id' = next_ri_id + Len(lines)
           /\ InsertEntries({Entry(next_entry_id + Rank(cn, CreatedIn(selection)) - 1,
                                   cn, user, new_id, today) : cn \in CreatedIn(selection)})
           /\ response' = Saved(new_id)

-----------------------------------------------------------------------------
(* Accounts: login, logout, register, modify_profile of views/web.py *)

MembersNamed(username) ==
    {id \in MemberIds : members[id].username = username}

\* Reply of an account route: status, message or redirect target, and the
\* member of the session after the request
AccountReply(op, status, message, user) ==
    Response(op, status, message, NoValue, user, MissingId, NoDate)

\* a LoginForm.clean that tells an unknown username from a wrong password
LoginForm_clean_named(username, password) ==
    IF username = "" \/ password = "" THEN MSG_REQUIRED
    ELSE IF MembersNamed(username) = {} THEN "Identifiant inconnu."
    ELSE IF Cardinality(MembersNamed(username)) > 1 THEN "MultipleObjectsReturned"
    ELSE IF ~check_password(password, members[CHOOSE id \in MembersNamed(username) : TRUE].password)
         THEN MSG_LOGIN_ERROR
    ELSE "ok"

\* LoginForm.clean: "ok", or the error of the form
LoginForm_clean(username, password) ==
    IF username = "" \/ password = "" THEN MSG_REQUIRED
    ELSE IF MembersNamed(username) = {} THEN MSG_LOGIN_ERROR
    ELSE IF Cardinality(MembersNamed(username)) > 1 THEN "MultipleObjectsReturned"
    ELSE IF ~check_password(password, members[CHOOSE id \in MembersNamed(username) : TRUE].password)
         THEN MSG_LOGIN_ERROR
    ELSE "ok"

\* web.login on a POST request: what the client observes and the session
\* key after the request, as a function of the store and the credentials
login_outcome(username, password) ==
    LET validity == LoginForm_clean(username, password) IN
    IF validity = "ok" THEN
        [status |-> 302, message |-> "/welcome",
         session |-> CHOOSE id \in MembersNamed(username) : TRUE]
    ELSE IF validity = "MultipleObjectsReturned" THEN
        [status |-> 500, message |-> validity, session |-> logged_user_id]
    ELSE
        [status |-> 200, message |-> validity, session |-> logged_user_id]

login(username, password) ==
    LET out == login_outcome(username, password) IN
    /\ logged_user_id' = out.session
    /\ response' = AccountReply("login", out.status, out.message, out.session)
    /\ UNCHANGED <<store, today, pc, req, media>>

logout ==
    /\ logged_user_id' = NoUser
    /\ response' = AccountReply("logout", 302, "/welcome", NoUser)
    /\ UNCHANGED <<store, today, pc, req, media>>

\* a RegistrationForm without clean_username
RegistrationForm_clean_no_lookup(username, password) ==
    IF username = "" \/ password = "" THEN MSG_REQUIRED
    ELSE "ok"

\* RegistrationForm.clean_username (and the required fields)
RegistrationForm_clean(username, password) ==
    IF username = "" \/ password = "" THEN MSG_REQUIRED
    ELSE IF MembersNamed(username) # {} THEN MSG_USERNAME_TAKEN
    ELSE "ok"

register(username, password, salt) ==
    LET validity == RegistrationForm_clean(username, password)
        new_id == Cardinality(MemberIds) + 1
    IN
    /\ UNCHANGED <<friends, recipes, ingredients, recipe_ingredient, next_ri_id,
                   entries, next_entry_id, logged_user_id, today, pc, req, media>>
    /\ IF validity = "ok" THEN
           /\ new_id <= MaxMembers
           /\ members' = [id \in MemberIds \cup {new_id} |->
                             IF id = new_id
                             THEN [username |-> username,
                                   password |-> make_password(password, salt)]
                             ELSE members[id]]
           /\ response' = AccountReply("register", 302, "/login", logged_user_id)
       ELSE
           /\ response' = AccountReply("register", 200, validity, logged_user_id)
           /\ UNCHANGED members

\* ModifyProfileForm.clean_username
ModifyProfileForm_clean_username(user, username) ==
    IF username = "" THEN MSG_REQUIRED
    ELSE IF username # members[user].username /\ MembersNamed(username) # {}
         THEN MSG_USERNAME_TAKEN
    ELSE "ok"

\* ModifyProfileForm.clean_former_password
ModifyProfileForm_clean_former_password(user, former_password) ==
    IF former_password = "" THEN MSG_REQUIRED
    ELSE IF ~check_password(former_password, members[user].password)
         THEN MSG_WRONG_FORMER_PASSWORD
    ELSE "ok"

\* a ModifyProfileForm.clean that does not compare the two new passwords
ModifyProfileForm_clean_no_match(new_password, confirm_new_password) ==
    IF new_password = "" \/ confirm_new_password = "" THEN MSG_REQUIRED
    ELSE "ok"

\* ModifyProfileForm.clean (and the two required password fields)
ModifyProfileForm_clean(new_password, confirm_new_password) ==
    IF new_password # confirm_new_password THEN MSG_PASSWORD_MISMATCH
    ELSE IF new_password = "" THEN MSG_REQUIRED
    ELSE "ok"

\* ModifyProfileForm.is_valid: the errors of the form
ModifyProfileForm_errors(user, username, former_password, new_password, confirm_new_password) ==
    {ModifyProfileForm_clean_username(user, username),
     ModifyProfileForm_clean_former_password(user, former_password),
     ModifyProfileForm_clean(new_password, confirm_new_password)} \ {"ok"}

\* the first error shown, in field order
FirstError(errors) ==
    IF MSG_REQUIRED \in errors THEN MSG_REQUIRED
    ELSE IF MSG_USERNAME_TAKEN \in errors THEN MSG_USERNAME_TAKEN
    ELSE IF MSG_WRONG_FORMER_PASSWORD \in errors THEN MSG_WRONG_FORMER_PASSWORD
    ELSE MSG_PASSWORD_MISMATCH

\* web.modify_profile on a POST request with a body
modify_profile(username, former_password, new_password, confirm_new_password, salt) ==
    LET user == get_logged_user
        errors == ModifyProfileForm_errors(user, username, former_password,
                                           new_password, confirm_new_password)
    IN
    /\ UNCHANGED <<friends, recipes, ingredients, recipe_ingredient, next_ri_id,
                   entries, next_entry_id, logged_user_id, today, pc, req, media>>
    /\ IF user = NoUser THEN
           /\ response' = AccountReply("modify_profile", 302, "/login", user)
           /\ UNCHANGED members
       ELSE IF errors = {} THEN
           /\ members' = [members EXCEPT ![user] =
                             [username |-> username,
                              password |-> make_password(new_password, salt)]]
           /\ response' = AccountReply("modify_profile", 302, "/login", user)
       ELSE
           /\ response' = AccountReply("modify_profile", 200, FirstError(errors), user)
           /\ UNCHANGED members

-----------------------------------------------------------------------------
(* The ingredient lines of an add-recipe POST: the lists request.POST holds  *)
(* under "name", "quantity" and "unit".                                      *)

\* a get_recipe_ingredient_list that zips the three lists whatever their
\* lengths
get_recipe_ingredient_list_zip(post) ==
    IF ~post.has_name THEN <<>>
    ELSE LET n == IF Len(post.name) <= Len(post.quantity) THEN Len(post.name)
                  ELSE Len(post.quantity)
             shortest == IF n <= Len(post.unit) THEN n ELSE Len(post.unit)
         IN [i \in 1..shortest |->
                [name |-> post.name[i], quantity |-> post.quantity[i], unit |-> post.unit[i]]]

\* utils.get_recipe_ingredient_list: one dictionary per line, none when
\* "name" is absent or the three lists differ in length
get_recipe_ingredient_list(post) ==
    IF ~post.has_name THEN <<>>
    ELSE IF Len(post.name) # Len(post.quantity) \/ Len(post.quantity) # Len(post.unit)
         THEN <<>>
    ELSE [i \in 1..Len(post.name) |->
             [name |-> post.name[i], quantity |-> post.quantity[i], unit |-> post.unit[i]]]

\* the quantities a FloatField accepts
Floats == {"1", "2"}

\* RecipeIngredientForm.is_valid on a bound form: name and unit filled in,
\* quantity a number
RecipeIngredientForm_is_valid(line) ==
    line.name # "" /\ line.quantity \in Floats /\ line.unit # ""

\* utils.get_recipe_ingredient_form_list: one bound form per dictionary, here
\* the name of the line when the form is valid and "" when it is not; no
\* dictionary gives the single unbound form, the empty list of lines of
\* ingredient_forms_valid
get_recipe_ingredient_form_list(recipe_ingredient_list) ==
    [i \in 1..Len(recipe_ingredient_list) |->
        IF RecipeIngredientForm_is_valid(recipe_ingredient_list[i])
        THEN recipe_ingredient_list[i].name ELSE ""]

\* web.add_recipe on the POST data of a request
add_recipe_post(post) ==
    add_recipe(post.title, post.category,
               get_recipe_ingredient_form_list(get_recipe_ingredient_list(post)),
               post.selection)

-----------------------------------------------------------------------------
(* The collection routes as views/api.py defines them: a request is its      *)
(* method and its parameters.                                                *)

Methods == {"GET", "POST"}

\* MODEL_MAP of add_to_collection and remove_from_collection
ModelNames == {"RecipeAlbumEntry", "RecipeToTryEntry", "RecipeHistoryEntry"}

\* the collection an entry model stands for
ModelCollection(model_name) ==
    CASE model_name = "RecipeAlbumEntry" -> "album"
      [] model_name = "RecipeToTryEntry" -> "trials"
      [] model_name = "RecipeHistoryEntry" -> "history"
      [] OTHER -> NoValue

RouteReply(op, status, message, method, user, recipe_id, cn) ==
    [op |-> op, status |-> status, message |-> message, collection_name |-> cn,
     member |-> user, recipe |-> recipe_id, date |-> NoDate, method |-> method]

\* the tests add_to_collection and remove_from_collection open with, in
\* their order; neither view reads request.method
ModelRequestError(recipe_id, model_name) ==
    IF recipe_id = MissingId THEN MSG_NO_RECIPE_ID
    ELSE IF get_logged_user = NoUser THEN MSG_NO_USER
    ELSE IF model_name = "" THEN MSG_NO_MODEL
    ELSE IF model_name \notin ModelNames THEN MSG_UNKNOWN_COLLECTION
    ELSE "ok"

\* api.add_to_collection on a request of any method with recipe_id and
\* model_name in its query string
add_to_collection(method, recipe_id, model_name) ==
    LET user == get_logged_user
        cn == ModelCollection(model_name)
        error == ModelRequestError(recipe_id, model_name)
        outcome == get_or_create(cn, user, recipe_id)
        Reply(status, message) ==
            RouteReply("add_to_collection", status, message, method, user, recipe_id, cn)
    IN
    /\ UNCHANGED <<members, friends, recipes, ingredients, recipe_ingredient,
                   next_ri_id, logged_user_id, today, pc, req, media>>
    /\ IF error # "ok" THEN
           /\ response' = Reply(400, error)
           /\ UNCHANGED <<entries, next_entry_id>>
       ELSE IF outcome = "created" THEN
           /\ next_entry_id <= MaxEntryId
           /\ InsertEntries({Entry(next_entry_id, cn, user, recipe_id, today)})
           /\ response' = Reply(200, MSG_ADDED)
       ELSE IF outcome = "found" THEN
           /\ response' = Reply(200, MSG_ALREADY)
           /\ UNCHANGED <<entries, next_entry_id>>
       ELSE
           /\ response' = Reply(500, MSG_ERROR)
           /\ UNCHANGED <<entries, next_entry_id>>

\* api.remove_from_collection on a request of any method
remove_from_collection(method, recipe_id, model_name) ==
    LET user == get_logged_user
        cn == ModelCollection(model_name)
        error == ModelRequestError(recipe_id, model_name)
        selection == FilterEntries(cn, user, recipe_id)
        Reply(status, message) ==
            RouteReply("remove_from_collection", status, message, method, user, recipe_id, cn)
    IN
    /\ UNCHANGED <<members, friends, recipes, ingredients, recipe_ingredient,
                   next_ri_id, next_entry_id, logged_user_id, today, pc, req, media>>
    /\ IF error # "ok" THEN
           /\ response' = Reply(400, error)
           /\ UNCHANGED entries
       ELSE
           /\ entries' = entries \ selection
           /\ response' = Reply(200, IF selection # {} THEN MSG_REMOVED ELSE MSG_NOT_PART)

\* a check_collection_status that looks for an entry of any member
check_collection_status_any_member(recipe_id, model_name) ==
    LET user == get_logged_user
        cn == ModelCollection(model_name)
        Reply(status, message, is_in_album) ==
            [op |-> "check_collection_status", status |-> status, message |-> message,
             collection_name |-> cn, member |-> user, recipe |-> recipe_id,
             date |-> NoDate, is_in_album |-> is_in_album]
    IN
    /\ UNCHANGED <<store, logged_user_id, today, pc, req, media>>
    /\ IF user = NoUser THEN response' = Reply(400, MSG_NO_USER, FALSE)
       ELSE IF recipe_id = MissingId THEN response' = Reply(400, MSG_NO_RECIPE_ID, FALSE)
       ELSE IF model_name = "" THEN response' = Reply(400, MSG_NO_MODEL, FALSE)
       ELSE IF model_name \notin ModelNames
            THEN response' = Reply(400, MSG_UNKNOWN_COLLECTION, FALSE)
       ELSE response' = Reply(200, MSG_OK,
                \E e \in entries : e.collection_name = cn /\ e.recipe = recipe_id)

\* api.check_collection_status: is_in_album tells whether the logged user
\* holds an entry of the recipe in the collection of the model
check_collection_status(recipe_id, model_name) ==
    LET user == get_logged_user
        cn == ModelCollection(model_name)
        Reply(status, message, is_in_album) ==
            [op |-> "check_collection_status", status |-> status, message |-> message,
             collection_name |-> cn, member |-> user, recipe |-> recipe_id,
             date |-> NoDate, is_in_album |-> is_in_album]
    IN
    /\ UNCHANGED <<store, logged_user_id, today, pc, req, media>>
    /\ IF user = NoUser THEN response' = Reply(400, MSG_NO_USER, FALSE)
       ELSE IF recipe_id = MissingId THEN response' = Reply(400, MSG_NO_RECIPE_ID, FALSE)
       ELSE IF model_name = "" THEN response' = Reply(400, MSG_NO_MODEL, FALSE)
       ELSE IF model_name \notin ModelNames
            THEN response' = Reply(400, MSG_UNKNOWN_COLLECTION, FALSE)
       ELSE response' = Reply(200, MSG_OK, FilterEntries(cn, user, recipe_id) # {})

\* the answer of add_recipe_history and remove_recipe_history to a request
\* that is not a POST
MethodNotAllowed(op, method) ==
    /\ response' = RouteReply(op, 405, MSG_METHOD_NOT_ALLOWED, method,
                              NoUser, MissingId, NoValue)
    /\ UNCHANGED <<members, friends, recipes, ingredients, recipe_ingredient, next_ri_id,
                   entries, next_entry_id, logged_user_id, today, pc, req, media>>

-----------------------------------------------------------------------------
(* Friends: web.show_friends with utils.handle_add_friend_request and        *)
(* utils.handle_remove_friend_request. An edge <<a, b>> of friends says that *)
(* member b is in a.friends; the relation is declared symmetrical=False.     *)

\* Reply of show_friends: the messages emitted by the request (a sequence,
\* in order) and the username the request was about
FriendsReply(op, status, emitted, user, username) ==
    [op |-> op, status |-> status, message |-> emitted, collection_name |-> NoValue,
     member |-> user, recipe |-> MissingId, date |-> NoDate, username |-> username]

\* logged_user.friends.filter(username=username): ids of the friends so named
FriendsNamed(user, username) ==
    {id \in MembersNamed(username) : <<user, id>> \in friends}

\* an AddFriendForm.clean_username_to_add without the test of the friend list
AddFriendForm_clean_no_friend_test(user, username_to_add) ==
    IF username_to_add = "" THEN MSG_REQUIRED
    ELSE IF MembersNamed(username_to_add) = {} THEN MSG_NO_SUCH_USER
    ELSE IF Cardinality(MembersNamed(username_to_add)) > 1 THEN "MultipleObjectsReturned"
    ELSE "ok"

\* AddFriendForm.is_valid: the required field, then clean_username_to_add
AddFriendForm_clean(user, username_to_add) ==
    IF username_to_add = "" THEN MSG_REQUIRED
    ELSE IF MembersNamed(username_to_add) = {} THEN MSG_NO_SUCH_USER
    ELSE IF Cardinality(MembersNamed(username_to_add)) > 1 THEN "MultipleObjectsReturned"
    ELSE IF FriendsNamed(user, username_to_add) # {} THEN MSG_ALREADY_FRIEND
    ELSE "ok"

\* show_friends on a POST request holding username_to_add
add_friend(username_to_add) ==
    LET user == get_logged_user
        validity == AddFriendForm_clean(user, username_to_add)
        new_friend == CHOOSE id \in MembersNamed(username_to_add) : TRUE
    IN
    /\ UNCHANGED <<members, recipes, ingredients, recipe_ingredient, next_ri_id,
                   entries, next_entry_id, logged_user_id, today, pc, req, media>>
    /\ IF user = NoUser THEN
           /\ response' = FriendsReply("add_friend", 302, <<>>, user, username_to_add)
           /\ UNCHANGED friends
       ELSE IF validity = "ok" THEN
           /\ friends' = friends \cup {<<user, new_friend>>}
           /\ response' = FriendsReply("add_friend", 200, <<MSG_FRIEND_ADDED>>,
                                       user, username_to_add)
       ELSE IF validity = "MultipleObjectsReturned" THEN
           /\ response' = FriendsReply("add_friend", 500, <<>>, user, username_to_add)
           /\ UNCHANGED friends
       ELSE
           /\ response' = FriendsReply("add_friend", 200, <<validity>>, user, username_to_add)
           /\ UNCHANGED friends

\* a removal that drops the edges of the friend in both directions
RemovedEdges_both_ways(user, username_to_remove) ==
    {<<user, id>> : id \in FriendsNamed(user, username_to_remove)}
    \cup {<<id, user>> : id \in FriendsNamed(user, username_to_remove)}

\* logged_user.friends.remove(friend) for the first friend so named
RemovedEdges(user, username_to_remove) ==
    IF FriendsNamed(user, username_to_remove) = {} THEN {}
    ELSE {<<user, CHOOSE id \in FriendsNamed(user, username_to_remove) :
                     \A other \in FriendsNamed(user, username_to_remove) : id <= other>>}

\* show_friends on a POST request holding username_to_remove
remove_friend(username_to_remove) ==
    LET user == get_logged_user IN
    /\ UNCHANGED <<members, recipes, ingredients, recipe_ingredient, next_ri_id,
                   entries, next_entry_id, logged_user_id, today, pc, req, media>>
    /\ IF user = NoUser THEN
           /\ response' = FriendsReply("remove_friend", 302, <<>>, user, username_to_remove)
           /\ UNCHANGED friends
       ELSE IF username_to_remove = "" THEN
           /\ response' = FriendsReply("remove_friend", 200, <<MSG_NOTHING_TO_REMOVE>>,
                                       user, username_to_remove)
           /\ UNCHANGED friends
       ELSE IF FriendsNamed(user, username_to_remove) # {} THEN
           /\ friends' = friends \ RemovedEdges(user, username_to_remove)
           /\ response' = FriendsReply("remove_friend", 200, <<MSG_FRIEND_REMOVED>>,
                                       user, username_to_remove)
       ELSE
           /\ response' = FriendsReply("remove_friend", 200, <<MSG_NOT_FRIEND>>,
                                       user, username_to_remove)
           /\ UNCHANGED friends

-----------------------------------------------------------------------------
(* Text: the strings the search compares, as sequences of characters *)

Chars(text) ==
    CASE text = "" -> <<>>
      [] text = "Tarte" -> <<"T", "a", "r", "t", "e">>
      [] text = "tarte" -> <<"t", "a", "r", "t", "e">>
      [] text = "soupe" -> <<"s", "o", "u", "p", "e">>
      [] text = "tar" -> <<"t", "a", "r">>
      [] text = "OU" -> <<"O", "U">>
      [] text = "carotte" -> <<"c", "a", "r", "o", "t", "t", "e">>
      [] text = "carottes" -> <<"c", "a", "r", "o", "t", "t", "e", "s">>
      [] text = "Sel" -> <<"S", "e", "l">>
      [] text = "sel" -> <<"s", "e", "l">>
      [] text = "pommes de terre" ->
            <<"p", "o", "m", "m", "e", "s", " ", "d", "e", " ", "t", "e", "r", "r", "e">>
      [] text = "pomme de terre" ->
            <<"p", "o", "m", "m", "e", " ", "d", "e", " ", "t", "e", "r", "r", "e">>

\* the characters in use, in code point order (upper case before lower case)
Alphabet ==
    <<" ", "O", "S", "T", "U", "a", "c", "d", "e", "l", "m", "o", "p", "r", "s", "t", "u">>

Code(char) == CHOOSE i \in 1..Len(Alphabet) : Alphabet[i] = char

Lower(char) ==
    CASE char = "O" -> "o"
      [] char = "S" -> "s"
      [] char = "T" -> "t"
      [] char = "U" -> "u"
      [] OTHER -> char

\* an icontains that compares the characters as they are
icontains_exact(text, term) ==
    LET t == Chars(text)
        p == Chars(term)
    IN \E i \in 0..(Len(t) - Len(p)) : \A j \in 1..Len(p) : t[i + j] = p[j]

\* the __icontains lookup: term occurs in text, letter case set aside
icontains(text, term) ==
    LET t == Chars(text)
        p == Chars(term)
    IN \E i \in 0..(Len(t) - Len(p)) :
           \A j \in 1..Len(p) : Lower(t[i + j]) = Lower(p[j])

\* a <= b in the order of order_by on a text column: character by character,
\* by code point, a prefix before its extensions
Precedes(a, b) ==
    LET x == Chars(a)
        y == Chars(b)
        Common(n) == \A k \in 1..n : x[k] = y[k]
    IN \/ Len(x) <= Len(y) /\ Common(Len(x))
       \/ \E i \in 1..Len(x) :
              /\ i <= Len(y)
              /\ Common(i - 1)
              /\ Code(x[i]) < Code(y[i])

\* utils.normalize_ingredient: the lemma of each token, joined by spaces, as
\* the French pipeline returns it for the terms in use
normalize_ingredient(ingredient_name) ==
    CASE ingredient_name = "carottes" -> "carotte"
      [] ingredient_name = "pommes de terre" -> "pomme de terre"
      [] OTHER -> ingredient_name

-----------------------------------------------------------------------------
(* Search: utils.handle_search_recipe_request and                            *)
(* utils.handle_show_recipe_collection_request. A queryset is modelled by    *)
(* the number of times each row id comes out of its joins, and by the column *)
(* it is ordered by; evaluating it gives the rows in that order, rows that   *)
(* are equal under the ordering coming in any order.                         *)

\* the member criterion: absent, "friends", or a Member instance
NoMember == [scope |-> "", id |-> NoUser]
FriendsScope == [scope |-> "friends", id |-> NoUser]
OfMember(id) == [scope |-> "member", id |-> id]

Criteria(title, category, collection_name, member, terms) ==
    [title |-> title, category |-> category, collection_name |-> collection_name,
     member |-> member, ingredient_1 |-> terms[1], ingredient_2 |-> terms[2],
     ingredient_3 |-> terms[3]]

EntryIds == {e.id : e \in entries}
EntryById(id) == CHOOSE e \in entries : e.id = id
IngredientName(id) == (CHOOSE row \in ingredients : row.id = id).name

\* utils.get_ingredient_inputs: the three terms of the form, normalized
get_ingredient_inputs(c) ==
    <<normalize_ingredient(c.ingredient_1), normalize_ingredient(c.ingredient_2),
      normalize_ingredient(c.ingredient_3)>>

\* a sort order that puts every collection in title order
SortOrder_title(collection_name) == "recipe__title"

\* utils.get_recipe_collection_by_sort_order: the order_by of the queryset
SortOrder(collection_name) ==
    IF collection_name = "history" THEN "-saving_date" ELSE "recipe__title"

\* utils.get_recipe_collection_by_sort_order: the rows of the queryset
get_recipe_collection_by_sort_order(collection_name) ==
    IF collection_name # "" THEN {e \in entries : e.collection_name = collection_name}
    ELSE entries

\* a friends lookup that follows the relation backwards
FriendsOf_incoming(user) == {id \in MemberIds : <<id, user>> \in friends}

\* logged_user.friends.all()
FriendsOf(user) == {id \in MemberIds : <<user, id>> \in friends}

\* utils.filter_recipe_collection_by_member, past its ValueError test
filter_recipe_collection_by_member(recipe_collection_qs, member, logged_user) ==
    IF member.scope = "" THEN recipe_collection_qs
    ELSE IF member.scope = "friends"
         THEN {e \in recipe_collection_qs : e.member \in FriendsOf(logged_user)}
    ELSE {e \in recipe_collection_qs : e.member = member.id}

\* the test that opens utils.filter_recipe_collection_by_member
RaisesValueError(member, logged_user) ==
    member.scope = "friends" /\ logged_user = NoUser

\* rows of RecipeIngredient joined to a recipe whose ingredient name matches
MatchingIngredients(recipe_id, term) ==
    {row \in RecipeIngredientsOf(recipe_id) :
        icontains(IngredientName(row.ingredient), term)}

\* one filter(...recipe_ingredient__ingredient__name__icontains=term) per
\* non-empty term, each with a join of its own: a row of the queryset comes
\* out once for every way of picking a matching RecipeIngredient per term
JoinCount(recipe_id, terms) ==
    LET n(i) == IF terms[i] = "" THEN 1
                ELSE Cardinality(MatchingIngredients(recipe_id, terms[i]))
    IN n(1) * n(2) * n(3)

\* the title and category filters on the recipe of a row
MatchesRecipe(recipe_id, c) ==
    /\ c.title = "" \/ icontains(recipes[recipe_id].title, c.title)
    /\ c.category = "" \/ recipes[recipe_id].category = c.category

\* the group of a row in values("recipe") or values("recipe", "saving_date")
SameGroup(collection_name, a, b) ==
    /\ a.recipe = b.recipe
    /\ collection_name = "history" => a.saving_date = b.saving_date

\* a get_filtered_recipe_collection_qs that takes the lowest id of each group
\* in the whole collection, before the member filter
get_filtered_recipe_collection_qs_collapse_first(c, logged_user) ==
    LET sorted == get_recipe_collection_by_sort_order(c.collection_name)
        scoped == filter_recipe_collection_by_member(sorted, c.member, logged_user)
        distinct_ids == {e.id : e \in {x \in sorted :
                            \A o \in sorted :
                                SameGroup(c.collection_name, x, o) => x.id <= o.id}}
        kept == {e \in scoped : e.id \in distinct_ids /\ MatchesRecipe(e.recipe, c)}
    IN [id \in EntryIds |->
           IF EntryById(id) \in kept
           THEN JoinCount(EntryById(id).recipe, get_ingredient_inputs(c))
           ELSE 0]

\* utils.get_filtered_recipe_collection_qs: how often each entry comes out
get_filtered_recipe_collection_qs(c, logged_user) ==
    LET sorted == get_recipe_collection_by_sort_order(c.collection_name)
        scoped == filter_recipe_collection_by_member(sorted, c.member, logged_user)
        distinct_ids == {e.id : e \in {x \in scoped :
                            \A o \in scoped :
                                SameGroup(c.collection_name, x, o) => x.id <= o.id}}
        kept == {e \in scoped : e.id \in distinct_ids /\ MatchesRecipe(e.recipe, c)}
    IN [id \in EntryIds |->
           IF EntryById(id) \in kept
           THEN JoinCount(EntryById(id).recipe, get_ingredient_inputs(c))
           ELSE 0]

\* utils.get_filtered_recipe_qs: how often each recipe comes out
get_filtered_recipe_qs(c, logged_user) ==
    LET scoped == filter_recipe_collection_by_member(entries, c.member, logged_user)
        recipe_ids == IF c.member.scope = "" THEN RecipeIds
                      ELSE {e.recipe : e \in scoped}
    IN [id \in RecipeIds |->
           IF id \in recipe_ids /\ MatchesRecipe(id, c)
           THEN JoinCount(id, get_ingredient_inputs(c))
           ELSE 0]

\* Recipe.objects.none() in place of the catalog
InvalidFormRecipes_none == [id \in RecipeIds |-> 0]

\* Recipe.objects.all() of an invalid search form
InvalidFormRecipes == [id \in RecipeIds |-> 1]

\* a comes no later than b under the order_by of the queryset
Before(order_by, a, b) ==
    CASE order_by = "-saving_date" -> EntryById(a).saving_date >= EntryById(b).saving_date
      [] order_by = "recipe__title" ->
            Precedes(recipes[EntryById(a).recipe].title, recipes[EntryById(b).recipe].title)
      [] order_by = "title" -> Precedes(recipes[a].title, recipes[b].title)

\* the lists a queryset can evaluate to
RECURSIVE Evaluate(_, _)
Evaluate(count, order_by) ==
    LET left == {id \in DOMAIN count : count[id] > 0}
        first == {id \in left : \A other \in left : Before(order_by, id, other)}
    IN IF left = {} THEN {<<>>}
       ELSE UNION {{<<id>> \o rest :
                       rest \in Evaluate([count EXCEPT ![id] = @ - 1], order_by)} :
                   id \in first}

\* SearchRecipeForm.is_valid: choice fields; member exists for a logged user
SearchRecipeForm_clean(c, logged_user) ==
    /\ c.category \in Categories \cup {""}
    /\ c.collection_name \in {"", "album", "history"}
    /\ logged_user # NoUser => c.member.scope \in {"", "friends"}

\* the cleaned data of a valid SearchRecipeForm: without a logged user the
\* form has no member field
SearchRecipeForm_cleaned(c, logged_user) ==
    IF logged_user = NoUser THEN [c EXCEPT !.member = NoMember] ELSE c

SearchReply(op, status, user, c, found_entries, found_recipes) ==
    [op |-> op, status |-> status, message |-> MSG_OK, collection_name |-> NoValue,
     member |-> user, recipe |-> MissingId, date |-> NoDate,
     criteria |-> c, entries |-> found_entries, recipes |-> found_recipes]

\* utils.handle_search_recipe_request(request, logged_user), its two
\* querysets evaluated
search_recipe(c) ==
    LET user == get_logged_user
        cleaned == SearchRecipeForm_cleaned(c, user)
    IN
    /\ UNCHANGED <<members, friends, recipes, ingredients, recipe_ingredient, next_ri_id,
                   entries, next_entry_id, logged_user_id, today, pc, req, media>>
    /\ IF ~SearchRecipeForm_clean(c, user) THEN
           \E found \in Evaluate(InvalidFormRecipes, "title") :
               response' = SearchReply("search_recipe", 200, user, c, <<>>, found)
       ELSE IF cleaned.collection_name # "" THEN
           \E found \in Evaluate(get_filtered_recipe_collection_qs(cleaned, user),
                                  SortOrder(cleaned.collection_name)) :
               response' = SearchReply("search_recipe", 200, user, c, found, <<>>)
       ELSE
           \E found \in Evaluate(get_filtered_recipe_qs(cleaned, user), "title") :
               response' = SearchReply("search_recipe", 200, user, c, <<>>, found)

\* ShowRecipeCollectionForm.is_valid: collection_name and member required
ShowRecipeCollectionForm_clean(c) ==
    /\ c.category \in Categories \cup {""}
    /\ c.collection_name \in COLLECTIONS
    /\ c.member.scope = "member"
    /\ c.member.id \in MemberIds

\* utils.handle_show_recipe_collection_request(request), its queryset evaluated
show_recipe_collection(c) ==
    /\ UNCHANGED <<members, friends, recipes, ingredients, recipe_ingredient, next_ri_id,
                   entries, next_entry_id, logged_user_id, today, pc, req, media>>
    /\ IF ~ShowRecipeCollectionForm_clean(c) THEN
           response' = SearchReply("show_recipe_collection", 200, NoUser, c, <<>>, <<>>)
       ELSE
           \E found \in Evaluate(get_filtered_recipe_collection_qs(c, NoUser),
                                  SortOrder(c.collection_name)) :
               response' = SearchReply("show_recipe_collection", 200, NoUser, c, found, <<>>)

\* utils.filter_recipe_collection_by_member(qs, member, logged_user) on the
\* queryset of a collection, evaluated; the ValueError is the reply 500
filter_by_member(collection_name, member, logged_user) ==
    LET c == Criteria("", "", collection_name, member, <<"", "", "">>)
        scoped == filter_recipe_collection_by_member(
                      get_recipe_collection_by_sort_order(collection_name),
                      member, logged_user)
    IN
    /\ UNCHANGED <<members, friends, recipes, ingredients, recipe_ingredient, next_ri_id,
                   entries, next_entry_id, logged_user_id, today, pc, req, media>>
    /\ IF RaisesValueError(member, logged_user) THEN
           response' = [SearchReply("filter_by_member", 500, logged_user, c, <<>>, <<>>)
                           EXCEPT !.message = "ValueError"]
       ELSE
           \E found \in Evaluate([id \in EntryIds |->
                                      IF EntryById(id) \in scoped THEN 1 ELSE 0],
                                  SortOrder(collection_name)) :
               response' = SearchReply("filter_by_member", 200, logged_user, c, found, <<>>)

-----------------------------------------------------------------------------
(* The calendar: date.today() moves forward between requests *)

AdvanceDay ==
    /\ today < MaxDate
    /\ today' = today + 1
    /\ UNCHANGED <<store, logged_user_id, response, pc, req, media>>

-----------------------------------------------------------------------------
(* Concurrent add requests: each worker runs the get-or-create of one        *)
(* add-to-collection request, its lookup and its insert being two steps.    *)
(* The entry tables declare no uniqueness constraint, so the insert of a    *)
(* worker never fails on a row another worker inserted after its lookup.    *)

IdleRequest ==
    [collection_name |-> NoValue, member |-> NoUser, recipe |-> MissingId,
     status |-> 0, created |-> FALSE]

\* the lookup of get_or_create: self.get(**kwargs)
RaceGet(w, cn, m, r) ==
    LET n == Cardinality(FilterEntries(cn, m, r))
        request == [collection_name |-> cn, member |-> m, recipe |-> r,
                    status |-> 0, created |-> FALSE]
    IN
    /\ pc[w] = "idle"
    /\ IF n = 0 THEN
           /\ pc' = [pc EXCEPT ![w] = "create"]
           /\ req' = [req EXCEPT ![w] = request]
       ELSE
           /\ pc' = [pc EXCEPT ![w] = "done"]
           /\ req' = [req EXCEPT ![w] =
                         [request EXCEPT !.status = IF n = 1 THEN 200 ELSE 500]]
    /\ UNCHANGED <<store, logged_user_id, today, response, media>>

\* the insert of get_or_create after a lookup that found nothing
RaceCreate(w) ==
    /\ pc[w] = "create"
    /\ next_entry_id <= MaxEntryId
    /\ InsertEntries({Entry(next_entry_id, req[w].collection_name, req[w].member,
                            req[w].recipe, today)})
    /\ pc' = [pc EXCEPT ![w] = "done"]
    /\ req' = [req EXCEPT ![w] = [@ EXCEPT !.status = 200, !.created = TRUE]]
    /\ UNCHANGED <<members, friends, recipes, ingredients, recipe_ingredient,
                   next_ri_id, logged_user_id, today, response, media>>

-----------------------------------------------------------------------------
(* Concurrent requests that test a name and then write it: is_valid() runs   *)
(* the lookup of clean_username or clean_title, save() runs the insert or    *)
(* the update, and requests of other workers may run in between.  Neither    *)
(* Member.username nor Recipe.title carries a unique constraint.             *)

NameRequest(op, member, name) ==
    [collection_name |-> NoValue, member |-> member, recipe |-> MissingId,
     status |-> 0, created |-> FALSE, op |-> op, name |-> name]

\* is_valid() of a request of worker w: on to the save, or the form is shown
\* again with its error
RaceClean(w, request, validity) ==
    /\ pc[w] = "idle"
    /\ IF validity = "ok" THEN
           /\ pc' = [pc EXCEPT ![w] = request.op]
           /\ req' = [req EXCEPT ![w] = request]
       ELSE
           /\ pc' = [pc EXCEPT ![w] = "done"]
           /\ req' = [req EXCEPT ![w] = [request EXCEPT !.status = 200]]
    /\ UNCHANGED <<store, logged_user_id, today, response, media>>

\* web.register up to form.is_valid()
RaceRegisterClean(w, username) ==
    RaceClean(w, NameRequest("register", NoUser, username),
              RegistrationForm_clean(username, "pw1"))

\* web.register from form.save() on
RaceRegisterSave(w) ==
    LET new_id == Cardinality(MemberIds) + 1 IN
    /\ pc[w] = "register"
    /\ new_id <= MaxMembers
    /\ members' = [id \in MemberIds \cup {new_id} |->
                      IF id = new_id
                      THEN [username |-> req[w].name,
                            password |-> make_password("pw1", "s1")]
                      ELSE members[id]]
    /\ pc' = [pc EXCEPT ![w] = "done"]
    /\ req' = [req EXCEPT ![w] = [@ EXCEPT !.status = 302, !.created = TRUE]]
    /\ UNCHANGED <<friends, recipes, ingredients, recipe_ingredient, next_ri_id,
                   entries, next_entry_id, logged_user_id, today, response, media>>

\* web.modify_profile of member user up to form.is_valid()
RaceModifyClean(w, user, username) ==
    RaceClean(w, NameRequest("modify_profile", user, username),
              IF ModifyProfileForm_errors(user, username, "pw1", "pw2", "pw2") = {}
              THEN "ok"
              ELSE FirstError(ModifyProfileForm_errors(user, username, "pw1", "pw2", "pw2")))

\* web.modify_profile from form.save() on
RaceModifySave(w) ==
    /\ pc[w] = "modify_profile"
    /\ members' = [members EXCEPT ![req[w].member] =
                      [username |-> req[w].name,
                       password |-> make_password("pw2", "s1")]]
    /\ pc' = [pc EXCEPT ![w] = "done"]
    /\ req' = [req EXCEPT ![w] = [@ EXCEPT !.status = 302]]
    /\ UNCHANGED <<friends, recipes, ingredients, recipe_ingredient, next_ri_id,
                   entries, next_entry_id, logged_user_id, today, response, media>>

\* web.add_recipe of member user up to are_forms_valid: one ingredient line,
\* the album ticked
RaceTitleClean(w, user, title) ==
    RaceClean(w, NameRequest("add_recipe", user, title),
              RecipeMainSubForm_clean(title, "dessert"))

\* web.add_recipe from save_recipe_with_ingredients on
RaceRecipeSave(w) ==
    LET new_id == Cardinality(RecipeIds) + 1 IN
    /\ pc[w] = "add_recipe"
    /\ new_id <= MaxRecipes
    /\ next_entry_id <= MaxEntryId
    /\ recipes' = [id \in RecipeIds \cup {new_id} |->
                      IF id = new_id
                      THEN [title |-> req[w].name, category |-> "dessert"]
                      ELSE recipes[id]]
    /\ ingredients' = SavedIngredients(ingredients, <<"sel">>)
    /\ recipe_ingredient' = recipe_ingredient \cup
           {[id |-> next_ri_id, recipe |-> new_id,
             ingredient |-> IngredientNamed(ingredients', "sel")]}
    /\ next_ri_id' = next_ri_id + 1
    /\ InsertEntries({Entry(next_entry_id, "album", req[w].member, new_id, today)})
    /\ pc' = [pc EXCEPT ![w] = "done"]
    /\ req' = [req EXCEPT ![w] = [@ EXCEPT !.status = 302, !.recipe = new_id,
                                           !.created = TRUE]]
    /\ UNCHANGED <<members, friends, logged_user_id, today, response, media>>

-----------------------------------------------------------------------------
(* Recipe.save and the image field of models.py *)

\* the uploaded image files, each named by the stem of its file name
Uploads == {"photo", "plat"}

NoPk == 0

\* image = models.ImageField(upload_to="recipe_images/", null=True, blank=True)
upload_to == "recipe_images/"

\* the image field of an object without image: a FieldFile without name,
\* which is false
NoImage == [name |-> "", committed |-> TRUE, file |-> NoValue]

\* the image field after recipe.image = <uploaded file>: the name of the
\* upload, not yet written to the storage
Upload(u) == [name |-> u \o ".jpg", committed |-> FALSE, file |-> u]

\* a Recipe object not saved yet, an empty storage, nothing compressed
NoMedia ==
    [pk |-> NoPk, image |-> NoImage, column |-> "", storage |-> {},
     compressed |-> [u \in Uploads |-> 0], saves |-> 0]

\* image_utils.compress_image: a new File of the same name, not written yet
compress_image(image) == [name |-> image.name, committed |-> FALSE, file |-> image.file]

\* Storage.get_available_name under upload_to: the name of the upload, with
\* a suffix when a file of that name exists already
get_available_name(storage, u) ==
    IF upload_to \o u \o ".jpg" \notin storage THEN upload_to \o u \o ".jpg"
    ELSE upload_to \o u \o "_" \o ToString(Cardinality(storage)) \o ".jpg"

\* the test of Recipe.save: compress or not
is_new_image(m) ==
    IF m.pk # NoPk THEN m.image.name # "" /\ m.image.name # m.column
    ELSE m.image.name # ""

\* Recipe.save: compress_image when the test says so, then Model.save, whose
\* FileField.pre_save writes an image not written yet to the storage and
\* puts the name it got in the field and in the column
Recipe_save ==
    LET compress == is_new_image(media)
        image == IF compress THEN compress_image(media.image) ELSE media.image
        write == image.name # "" /\ ~image.committed
        name == IF write THEN get_available_name(media.storage, image.file)
                ELSE image.name
    IN
    /\ media.saves < MaxSaves
    /\ media' = [pk |-> 1,
                 image |-> [name |-> name, committed |-> TRUE, file |-> image.file],
                 column |-> name,
                 storage |-> IF write THEN media.storage \cup {name} ELSE media.storage,
                 compressed |-> IF compress
                                THEN [media.compressed EXCEPT ![image.file] = @ + 1]
                                ELSE media.compressed,
                 saves |-> media.saves + 1]
    /\ UNCHANGED <<store, logged_user_id, today, response, pc, req>>

\* recipe.image = image, with an uploaded file
AssignImage ==
    \E u \in Uploads :
        /\ media' = [media EXCEPT !.image = Upload(u)]
        /\ UNCHANGED <<store, logged_user_id, today, response, pc, req>>

\* recipe.image = None
ClearImage ==
    /\ media' = [media EXCEPT !.image = NoImage]
    /\ UNCHANGED <<store, logged_user_id, today, response, pc, req>>

-----------------------------------------------------------------------------
(* Initial states *)

\* an empty database and no session
InitEmpty ==
    /\ members = [id \in {} |-> 0]
    /\ friends = {}
    /\ recipes = [id \in {} |-> 0]
    /\ ingredients = {}
    /\ recipe_ingredient = {}
    /\ next_ri_id = 1
    /\ entries = {}
    /\ next_entry_id = 1
    /\ logged_user_id = NoUser
    /\ today = 1
    /\ response = NoResponse
    /\ pc = [w \in Workers |-> "idle"]
    /\ req = [w \in Workers |-> IdleRequest]
    /\ media = NoMedia

\* one registered member, no recipe yet
InitNames ==
    /\ members = [id \in {1} |->
                     [username |-> "alice", password |-> make_password("pw1", "s1")]]
    /\ friends = {}
    /\ recipes = [id \in {} |-> 0]
    /\ ingredients = {}
    /\ recipe_ingredient = {}
    /\ next_ri_id = 1
    /\ entries = {}
    /\ next_entry_id = 1
    /\ logged_user_id = NoUser
    /\ today = 1
    /\ response = NoResponse
    /\ pc = [w \in Workers |-> "idle"]
    /\ req = [w \in Workers |-> IdleRequest]
    /\ media = NoMedia

\* two registered members and one recipe, no collection entry yet
Init ==
    /\ members = [id \in {1, 2} |->
                     [username |-> IF id = 1 THEN "alice" ELSE "bob",
                      password |-> make_password("pw1", "s1")]]
    /\ friends = {}
    /\ recipes = [id \in {1} |-> [title |-> "tarte", category |-> "dessert"]]
    /\ ingredients = {[id |-> 1, name |-> "carotte"]}
    /\ recipe_ingredient = {[id |-> 1, recipe |-> 1, ingredient |-> 1]}
    /\ next_ri_id = 2
    /\ entries = {}
    /\ next_entry_id = 1
    /\ logged_user_id = NoUser
    /\ today = 1
    /\ response = NoResponse
    /\ pc = [w \in Workers |-> "idle"]
    /\ req = [w \in Workers |-> IdleRequest]
    /\ media = NoMedia

\* The store the searches run on: three members; three recipes whose titles
\* differ in letter case; a recipe with two ingredients that contain the same
\* term; album, history and trials entries, the same recipe being held by
\* several members and cooked on several dates; and a friends relation in
\* which alice lists bob, with or without carol listing alice.
SearchFriends == {{<<1, 2>>}, {<<1, 2>>, <<3, 1>>}}

InitSearch ==
    /\ members = [id \in {1, 2, 3} |->
                     [username |-> CASE id = 1 -> "alice" [] id = 2 -> "bob"
                                     [] id = 3 -> "carol",
                      password |-> make_password("pw1", "s1")]]
    /\ friends \in SearchFriends
    /\ recipes = [id \in {1, 2, 3} |->
                     CASE id = 1 -> [title |-> "soupe", category |-> "plat"]
                       [] id = 2 -> [title |-> "Tarte", category |-> "dessert"]
                       [] id = 3 -> [title |-> "tarte", category |-> "dessert"]]
    /\ ingredients = {[id |-> 1, name |-> "carotte"], [id |-> 2, name |-> "carottes"],
                      [id |-> 3, name |-> "Sel"], [id |-> 4, name |-> "pommes de terre"]}
    /\ recipe_ingredient = {[id |-> 1, recipe |-> 1, ingredient |-> 1],
                            [id |-> 2, recipe |-> 1, ingredient |-> 2],
                            [id |-> 3, recipe |-> 2, ingredient |-> 3],
                            [id |-> 4, recipe |-> 2, ingredient |-> 4],
                            [id |-> 5, recipe |-> 3, ingredient |-> 1],
                            [id |-> 6, recipe |-> 3, ingredient |-> 3]}
    /\ next_ri_id = 7
    /\ entries = {Entry(1, "album", 1, 1, 1), Entry(2, "album", 2, 1, 1),
                  Entry(3, "album", 3, 2, 1), Entry(4, "album", 2, 3, 2),
                  Entry(5, "history", 1, 1, 1), Entry(6, "history", 1, 1, 2),
                  Entry(7, "history", 2, 1, 2), Entry(8, "history", 3, 3, 1),
                  Entry(9, "trials", 1, 2, 2)}
    /\ next_entry_id = 10
    /\ logged_user_id = NoUser
    /\ today = 2
    /\ response = NoResponse
    /\ pc = [w \in Workers |-> "idle"]
    /\ req = [w \in Workers |-> IdleRequest]
    /\ media = NoMedia

-----------------------------------------------------------------------------
(* Inputs of the requests *)

\* the three ingredient fields of a search: none, one, two and three terms, a
\* term that two ingredients of a recipe contain
TermTriples ==
    {<<"", "", "">>, <<"carotte", "", "">>, <<"carotte", "sel", "">>,
     <<"carotte", "", "carotte">>}

\* search: every combination of a title, a category, a collection, a member
\* scope and ingredient terms; an upper case title term; terms the lemmatizer
\* rewrites; and one request per invalid choice
SearchInputs ==
    {Criteria(title, category, collection_name, member, terms) :
        title \in {"", "tar"}, category \in {"", "dessert"},
        collection_name \in {"", "album", "history"},
        member \in {NoMember, FriendsScope}, terms \in TermTriples}
    \cup {Criteria("OU", "", collection_name, NoMember, <<"", "", "">>) :
              collection_name \in {"", "album"}}
    \cup {Criteria("", "", collection_name, NoMember, terms) :
              collection_name \in {"", "album"},
              terms \in {<<"carottes", "", "">>, <<"", "sel", "">>,
                         <<"sel", "pommes de terre", "">>}}
    \cup {Criteria("", "invalid_category", "", NoMember, <<"", "", "">>),
          Criteria("", "", "trials", NoMember, <<"", "", "">>),
          Criteria("tar", "", UnknownCollection, FriendsScope, <<"sel", "", "">>)}

\* show-recipe-collection: a member's collection with and without ingredient
\* terms, an unknown member, no member, no collection
ShowRecipeCollectionInputs ==
    {Criteria("", "", collection_name, OfMember(id), terms) :
        collection_name \in COLLECTIONS, id \in {1, 2, 3, NoSuchId},
        terms \in {<<"", "", "">>, <<"carotte", "", "carotte">>}}
    \cup {Criteria("tar", "dessert", "album", OfMember(3), <<"", "", "">>),
          Criteria("", "", "album", NoMember, <<"", "", "">>),
          Criteria("", "", "", OfMember(1), <<"", "", "">>)}

SearchRecipe ==
    \E c \in SearchInputs : search_recipe(c)

ShowRecipeCollection ==
    \E c \in ShowRecipeCollectionInputs : show_recipe_collection(c)

FilterByMember ==
    \E collection_name \in {"album", "history"},
       member \in {NoMember, FriendsScope} \cup {OfMember(id) : id \in MemberIds},
       logged_user \in MemberIds \cup {NoUser} :
        filter_by_member(collection_name, member, logged_user)

\* update_collection: every action on every collection for an existing
\* recipe, an unknown and a malformed recipe id, and one request for each
\* way check_request_validity and the action test turn a request down
UpdateCollectionInputs ==
    {<<action, r, cn>> : action \in {"add", "remove"},
                         r \in RecipeIds \cup {NoSuchId, BadId},
                         cn \in COLLECTIONS}
    \cup {<<"invalid_action", 1, "album">>, <<"add", MissingId, "album">>,
          <<"remove", 1, NoValue>>, <<"add", 1, UnknownCollection>>}

UpdateCollection ==
    \E in \in UpdateCollectionInputs : update_collection(in[1], in[2], in[3])

\* add-recipe-history: every member, recipe and date, a missing date, an
\* unknown member and an unknown recipe
AddRecipeHistoryInputs ==
    {<<m, r, d>> : m \in MemberIds, r \in RecipeIds, d \in Dates \cup {NoDate}}
    \cup {<<NoSuchId, 1, 1>>, <<1, NoSuchId, 1>>}

AddRecipeHistory ==
    \E in \in AddRecipeHistoryInputs : add_recipe_history(in[1], in[2], in[3])

\* remove-recipe-history: every member, recipe and date, a missing date, and
\* missing or unknown ids
RemoveRecipeHistoryInputs ==
    {<<m, r, d>> : m \in MemberIds, r \in RecipeIds, d \in Dates \cup {NoDate}}
    \cup {<<MissingId, 1, 1>>, <<1, MissingId, 1>>, <<NoSuchId, 1, 1>>, <<1, NoSuchId, 1>>}

RemoveRecipeHistory ==
    \E in \in RemoveRecipeHistoryInputs : remove_recipe_history(in[1], in[2], in[3])

\* add-recipe: a fresh and a used title with every selection of collections,
\* three ingredient lines of which two name the same new ingredient and one
\* an ingredient another recipe uses, and one request for each form that can
\* be invalid
AddRecipeInputs ==
    {<<title, "plat", <<"sel", "carotte", "sel">>, selection>> :
        title \in Titles, selection \in SUBSET COLLECTIONS}
    \cup {<<"", "plat", <<"sel">>, {"album"}>>,
          <<"soupe", "invalid_category", <<"sel">>, {"album"}>>,
          <<"soupe", "plat", <<>>, {"album"}>>,
          <<"soupe", "plat", <<"sel", "">>, {"album"}>>}

AddRecipe ==
    \E in \in AddRecipeInputs : add_recipe(in[1], in[2], in[3], in[4])

\* add-recipe POSTs: a fresh and a used title, no "name" key, and name,
\* quantity and unit lists of zero to two values, of equal and of unequal
\* lengths, with a quantity that is no number
AddRecipePosts ==
    {[title |-> title, category |-> "plat", selection |-> {"album"},
      has_name |-> TRUE, name |-> name, quantity |-> quantity, unit |-> unit] :
        title \in Titles,
        name \in {<<>>, <<"sel">>, <<"sel", "carotte">>, <<"">>},
        quantity \in {<<"1">>, <<"1", "2">>, <<"1", "deux">>},
        unit \in {<<"g">>, <<"g", "kg">>}}
    \cup {[title |-> title, category |-> "plat", selection |-> {"album"},
           has_name |-> FALSE, name |-> <<>>, quantity |-> quantity, unit |-> quantity] :
             title \in Titles, quantity \in {<<>>, <<"1">>}}

AddRecipePost ==
    \E post \in AddRecipePosts : add_recipe_post(post)

Login ==
    \E username \in Usernames \cup {""}, password \in Passwords \cup {""} :
        login(username, password)

Logout == logout

Register ==
    \E username \in Usernames \cup {""}, password \in Passwords \cup {""}, salt \in Salts :
        register(username, password, salt)

ModifyProfile ==
    \E username \in Usernames \cup {""}, former \in Passwords \cup {""},
       new \in Passwords \cup {""}, confirm \in Passwords \cup {""}, salt \in Salts :
        modify_profile(username, former, new, confirm, salt)

\* the model routes: every method, an existing, a missing and an unknown
\* recipe id, every model name, none and an unknown one
ModelRouteInputs ==
    {<<method, r, model_name>> :
        method \in Methods, r \in RecipeIds \cup {MissingId, NoSuchId},
        model_name \in ModelNames \cup {"", "UnknownModel"}}

CheckCollectionStatus ==
    \E r \in RecipeIds \cup {MissingId, NoSuchId},
       model_name \in ModelNames \cup {"", "UnknownModel"} :
        check_collection_status(r, model_name)

AddToCollection ==
    \E in \in ModelRouteInputs : add_to_collection(in[1], in[2], in[3])

RemoveFromCollection ==
    \E in \in ModelRouteInputs : remove_from_collection(in[1], in[2], in[3])

\* api.add_recipe_history on a request of any method
AddRecipeHistoryRequest ==
    \E method \in Methods, in \in AddRecipeHistoryInputs :
        IF method = "POST" THEN add_recipe_history(in[1], in[2], in[3])
        ELSE MethodNotAllowed("add_recipe_history", method)

\* api.remove_recipe_history on a request of any method
RemoveRecipeHistoryRequest ==
    \E method \in Methods, in \in RemoveRecipeHistoryInputs :
        IF method = "POST" THEN remove_recipe_history(in[1], in[2], in[3])
        ELSE MethodNotAllowed("remove_recipe_history", method)

AddFriend ==
    \E username \in Usernames \cup {""} : add_friend(username)

RemoveFriend ==
    \E username \in Usernames \cup {""} : remove_friend(username)

RaceGetStep ==
    \E w \in Workers, cn \in COLLECTIONS, m \in MemberIds, r \in RecipeIds :
        RaceGet(w, cn, m, r)

RaceCreateStep ==
    \E w \in Workers : RaceCreate(w)

RaceRegisterCleanStep ==
    \E w \in Workers, username \in Usernames : RaceRegisterClean(w, username)

RaceRegisterSaveStep ==
    \E w \in Workers : RaceRegisterSave(w)

RaceModifyCleanStep ==
    \E w \in Workers, user \in MemberIds, username \in Usernames :
        RaceModifyClean(w, user, username)

RaceModifySaveStep ==
    \E w \in Workers : RaceModifySave(w)

RaceTitleCleanStep ==
    \E w \in Workers, user \in MemberIds, title \in Titles :
        RaceTitleClean(w, user, title)

RaceRecipeSaveStep ==
    \E w \in Workers : RaceRecipeSave(w)

-----------------------------------------------------------------------------
(* Specifications *)

\* sequential requests on the collections
Next ==
    \/ UpdateCollection
    \/ AddRecipeHistory
    \/ RemoveRecipeHistory
    \/ AddRecipe
    \/ Login
    \/ Logout
    \/ AdvanceDay

Spec == Init /\ [][Next]_vars

\* sequential requests on the accounts, from an empty database
NextAcct ==
    \/ Register
    \/ Login
    \/ Logout
    \/ ModifyProfile

SpecAcct == InitEmpty /\ [][NextAcct]_vars

\* concurrent add requests
NextRace ==
    \/ RaceGetStep
    \/ RaceCreateStep

SpecRace == Init /\ [][NextRace]_vars

\* concurrent register, modify_profile and add_recipe requests, one per worker
NextNames ==
    \/ RaceRegisterCleanStep
    \/ RaceRegisterSaveStep
    \/ RaceModifyCleanStep
    \/ RaceModifySaveStep
    \/ RaceTitleCleanStep
    \/ RaceRecipeSaveStep

SpecNames == InitNames /\ [][NextNames]_vars

\* sequential requests on the friends lists of two registered members
NextFriends ==
    \/ Login
    \/ Logout
    \/ AddFriend
    \/ RemoveFriend

SpecFriends == Init /\ [][NextFriends]_vars

\* requests of any method on the four collection routes
NextRoutes ==
    \/ Login
    \/ Logout
    \/ AddToCollection
    \/ RemoveFromCollection
    \/ AddRecipeHistoryRequest
    \/ RemoveRecipeHistoryRequest

SpecRoutes == Init /\ [][NextRoutes]_vars

\* a Recipe object whose image is set, cleared and saved
NextImage ==
    \/ AssignImage
    \/ ClearImage
    \/ Recipe_save

SpecImage == Init /\ [][NextImage]_vars

\* add-recipe POSTs with their lists of ingredient fields, between logins,
\* logouts and collection requests
NextPost ==
    \/ Login
    \/ Logout
    \/ AddRecipePost
    \/ UpdateCollection

SpecPost == Init /\ [][NextPost]_vars

\* collection requests of utils.update_collection, history entries of
\* several dates, and the status of a recipe in a collection
NextStatus ==
    \/ Login
    \/ Logout
    \/ UpdateCollection
    \/ AddRecipeHistory
    \/ CheckCollectionStatus

SpecStatus == Init /\ [][NextStatus]_vars

\* searches on a store that does not change, by any member or by nobody
NextSearch ==
    \/ Login
    \/ Logout
    \/ SearchRecipe
    \/ ShowRecipeCollection
    \/ FilterByMember

SpecSearch == InitSearch /\ [][NextSearch]_vars

-----------------------------------------------------------------------------
(* Properties *)

Count(cn, m, r) == Cardinality(FilterEntries(cn, m, r))

\* C1: under sequential requests a member holds at most one entry per recipe
\* in the album and at most one in the trials collection, and an 'add' for a
\* (collection, member, recipe) that already has an entry answers 'fait deja
\* partie' (created=False) and leaves the entries as they were, one for the key.
C1_AtMostOne ==
    \A e1, e2 \in entries :
        (/\ e1.collection_name \in {"album", "trials"}
         /\ e1.collection_name = e2.collection_name
         /\ e1.member = e2.member
         /\ e1.recipe = e2.recipe) => e1.id = e2.id

C1_RepeatedAdd ==
    \A cn \in {"album", "trials"}, r \in RecipeIds :
        (/\ response'.op = "add"
         /\ logged_user_id # NoUser
         /\ Count(cn, logged_user_id, r) >= 1
         /\ update_collection("add", r, cn))
        => (/\ response'.status = 200
            /\ response'.message = MSG_ALREADY
            /\ entries' = entries
            /\ Count(cn, logged_user_id, r)' = 1)

C1_UniqueAlbumTrials == []C1_AtMostOne /\ [][C1_RepeatedAdd]_vars

C1_Witness ==
    /\ response.op = "add"
    /\ response.message = MSG_ALREADY
    /\ response.collection_name \in {"album", "trials"}
    /\ Count(response.collection_name, response.member, response.recipe) = 1

\* C2: under sequential requests over every entry-creating path the history
\* holds at most one entry per (member, recipe, saving_date), and
\* CreateRecipeHistoryForm rejects a (member, recipe, saving_date) that has an
\* entry already, creating nothing.
C2_AtMostOnePerDate ==
    \A e1, e2 \in entries :
        (/\ e1.collection_name = "history"
         /\ e2.collection_name = "history"
         /\ e1.member = e2.member
         /\ e1.recipe = e2.recipe
         /\ e1.saving_date = e2.saving_date) => e1.id = e2.id

C2_FormRejectsDuplicate ==
    \A m \in MemberIds, r \in RecipeIds, d \in Dates :
        (/\ response'.op = "add_recipe_history"
         /\ FilterHistory(m, r, d) # {}
         /\ add_recipe_history(m, r, d))
        => (/\ response'.message = MSG_ALREADY_IN_HISTORY
            /\ entries' = entries)

C3_AddOnNewDate ==
    /\ \A m \in MemberIds, r \in RecipeIds, d \in Dates :
          (/\ response'.op = "add_recipe_history"
           /\ FilterHistory(m, r, d) = {}
           /\ add_recipe_history(m, r, d))
          => (/\ response'.message = "success"
              /\ Cardinality(FilterHistory(m, r, d)') = 1)
    /\ \A r \in RecipeIds :
          (/\ response'.op = "add"
           /\ logged_user_id # NoUser
           /\ FilterHistory(logged_user_id, r, today) = {}
           /\ update_collection("add", r, "history"))
          => (/\ response'.message = MSG_ADDED
              /\ Cardinality(FilterHistory(logged_user_id, r, today)') = 1)

C3_HistoryAddOnNewDateCreates == [][C3_AddOnNewDate]_vars

\* C4: update_collection 'add' on a (collection, member, recipe) that has one
\* or more entries answers 200 'fait deja partie', creates nothing and never
\* answers 500, for each of the three collections.
C4_AddExisting ==
    \A cn \in COLLECTIONS, r \in RecipeIds :
        (/\ response'.op = "add"
         /\ logged_user_id # NoUser
         /\ Count(cn, logged_user_id, r) >= 1
         /\ update_collection("add", r, cn))
        => (/\ response'.status = 200
            /\ response'.message = MSG_ALREADY
            /\ entries' = entries)

C4_AddNeverFailsOnExisting == [][C4_AddExisting]_vars

\* C5: update_collection 'remove' on (collection, member, recipe) deletes every
\* matching entry (for history, of every date) and reports 'supprimee'; with
\* no matching entry it deletes nothing and answers 200 'ne fait pas partie';
\* afterwards no entry of the key remains and every other entry is kept.
C5_Remove ==
    \A cn \in COLLECTIONS, r \in RecipeIds \cup {NoSuchId} :
        (/\ response'.op = "remove"
         /\ logged_user_id # NoUser
         /\ update_collection("remove", r, cn))
        => (/\ response'.status = 200
            /\ response'.message =
                   (IF Count(cn, logged_user_id, r) > 0 THEN MSG_REMOVED ELSE MSG_NOT_PART)
            /\ Count(cn, logged_user_id, r)' = 0
            /\ entries' = {e \in entries :
                              ~(/\ e.collection_name = cn
                                /\ e.member = logged_user_id
                                /\ e.recipe = r)})

C5_RemoveDeletesAll == [][C5_Remove]_vars

\* a remove that has just emptied the history of a recipe that had been saved
\* on two dates (both primary keys are used up, no row is left)
C5_Witness ==
    /\ response.op = "remove"
    /\ response.message = MSG_REMOVED
    /\ response.collection_name = "history"
    /\ Count("history", response.member, response.recipe) = 0

\* C6: remove_recipe_history with date d deletes exactly the history entry of
\* (member, recipe) saved on d and reports success iff a row was deleted; the
\* entries of other dates stay; a date on which (member, recipe) has no history
\* entry is rejected by the form with nothing deleted.
C6_RemoveDated ==
    \A m \in MemberIds, r \in RecipeIds, d \in Dates \cup {NoDate} :
        (response'.op = "remove_recipe_history" /\ remove_recipe_history(m, r, d))
        => (/\ (response'.message = "success") <=> (entries' # entries)
            /\ IF \E e \in entries : /\ e.collection_name = "history"
                                      /\ e.member = m /\ e.recipe = r
                                      /\ e.saving_date = d
               THEN /\ response'.message = "success"
                    /\ Cardinality(entries \ entries') = 1
                    /\ entries' = {e \in entries :
                                      ~(/\ e.collection_name = "history"
                                        /\ e.member = m /\ e.recipe = r
                                        /\ e.saving_date = d)}
               ELSE /\ response'.message = MSG_INVALID_CHOICE
                    /\ entries' = entries)

C7_ConcurrentAddsOneEntry ==
    \A cn \in {"album", "trials"}, m \in MemberIds, r \in RecipeIds :
        LET same == {w \in Workers : /\ req[w].collection_name = cn
                                     /\ req[w].member = m
                                     /\ req[w].recipe = r}
        IN
        /\ Count(cn, m, r) <= 1
        /\ Cardinality({w \in same : req[w].created}) <= 1
        /\ (same # {} /\ \A w \in same : pc[w] = "done") => Count(cn, m, r) = 1

\* C8: under sequential register and modify_profile requests no two members
\* share a username: a registration with a username in use is turned down
\* with 'Identifiant non disponible.' and stores nothing, modify_profile never
\* gives a member the username of another member, and a modify_profile that
\* keeps the member's own username is accepted.
C8_NoSharedUsername ==
    \A a, b \in MemberIds : members[a].username = members[b].username => a = b

C8_TakenRejected ==
    /\ \A username \in Usernames, password \in Passwords, salt \in Salts :
          (/\ response'.op = "register"
           /\ MembersNamed(username) # {}
           /\ register(username, password, salt))
          => (/\ response'.message = MSG_USERNAME_TAKEN
              /\ members' = members)
    /\ (response'.op = "modify_profile" /\ logged_user_id # NoUser)
       => \A other \in MemberIds \ {logged_user_id} :
              members'[logged_user_id].username # members[other].username

\* ModifyProfileForm.clean_username accepts the username the member has
C8_OwnUsernameAccepted ==
    \A id \in MemberIds :
        ModifyProfileForm_clean_username(id, members[id].username) = "ok"

C8_UniqueUsernames ==
    /\ []C8_NoSharedUsername
    /\ []C8_OwnUsernameAccepted
    /\ [][C8_TakenRejected]_vars

\* a member asked for the username of another member and was turned down
C8_Witness ==
    /\ response.op = "modify_profile"
    /\ response.message = MSG_USERNAME_TAKEN
    /\ Cardinality(MemberIds) >= 2

\* C9: a login with a username no member has and a login with the username of
\* a member and a wrong password have the same outcome: the same status, the
\* same error message 'Identifiant ou mot de passe errone.', and no session.
C9_SameOutcome ==
    \A u1, u2 \in Usernames, p1, p2 \in Passwords :
        (/\ MembersNamed(u1) = {}
         /\ MembersNamed(u2) # {}
         /\ \A id \in MembersNamed(u2) : ~check_password(p2, members[id].password))
        => (/\ login_outcome(u1, p1) = login_outcome(u2, p2)
            /\ login_outcome(u1, p1) =
                   [status |-> 200, message |-> MSG_LOGIN_ERROR, session |-> logged_user_id])

C9_FailedLogin ==
    \A username \in Usernames, password \in Passwords :
        (/\ response'.op = "login"
         /\ \A id \in MembersNamed(username) : ~check_password(password, members[id].password)
         /\ login(username, password))
        => (/\ response' = AccountReply("login", 200, MSG_LOGIN_ERROR, logged_user_id)
            /\ logged_user_id' = logged_user_id)

C9_NoEnumeration == []C9_SameOutcome /\ [][C9_FailedLogin]_vars

\* a login was refused while some username is in use and another is not
C9_Witness ==
    /\ response.op = "login"
    /\ response.message = MSG_LOGIN_ERROR
    /\ \E u1, u2 \in Usernames : MembersNamed(u1) = {} /\ MembersNamed(u2) # {}

\* C10: modify_profile changes the stored member only when the former
\* password matches the stored one, the two new passwords are equal and the
\* username is the member's own or in use by nobody; the change is then the
\* submitted username and the hash of the new password. A request failing one
\* of the three checks leaves the members as they were.
C10_OnlyWhenAllPass ==
    (members' # members /\ response'.op = "modify_profile")
    => \A username \in Usernames \cup {""}, former \in Passwords \cup {""},
          new \in Passwords \cup {""}, confirm \in Passwords \cup {""}, salt \in Salts :
           modify_profile(username, former, new, confirm, salt)
           => (/\ logged_user_id # NoUser
               /\ check_password(former, members[logged_user_id].password)
               /\ new = confirm
               /\ \/ username = members[logged_user_id].username
                  \/ MembersNamed(username) = {}
               /\ members' = [members EXCEPT ![logged_user_id] =
                                 [username |-> username,
                                  password |-> make_password(new, salt)]])

C10_FailureKeepsMember ==
    (response'.op = "modify_profile" /\ response'.status = 200) => members' = members

C10_ModifyProfileAtomic == [][C10_OnlyWhenAllPass /\ C10_FailureKeepsMember]_vars

\* a modification was refused for its two new passwords differing
C10_Witness ==
    /\ response.op = "modify_profile"
    /\ response.message = MSG_PASSWORD_MISMATCH
    /\ logged_user_id # NoUser

\* C11: the stored password is never the raw password, and authentication
\* follows the latest successful write: right after register(u, p) a login
\* (u, p) succeeds and a login (u, q) fails for every q other than p; right
\* after a successful modify_profile to (u2, p2) a login (u2, p2) succeeds, a
\* login with the former password fails when p2 differs from it, and the
\* former username authenticates with no password when u2 differs from it.
C11_NeverRaw ==
    \A id \in MemberIds : members[id].password \notin Passwords \cup {""}

C11_AfterRegister ==
    \A u \in Usernames, p \in Passwords, salt \in Salts :
        (/\ response'.op = "register"
         /\ response'.status = 302
         /\ register(u, p, salt))
        => (/\ login_outcome(u, p)'.status = 302
            /\ \A q \in Passwords \ {p} :
                  /\ login_outcome(u, q)'.status = 200
                  /\ login_outcome(u, q)'.message = MSG_LOGIN_ERROR)

C11_AfterModifyProfile ==
    (/\ response'.op = "modify_profile"
     /\ response'.status = 302
     /\ logged_user_id # NoUser)
    => \A old \in Usernames, u2 \in Usernames, former \in Passwords,
          p2 \in Passwords, salt \in Salts :
           (/\ old = members[logged_user_id].username
            /\ modify_profile(u2, former, p2, p2, salt))
           => (/\ login_outcome(u2, p2)'.status = 302
               /\ login_outcome(u2, p2)'.session = logged_user_id
               /\ (p2 # former) => login_outcome(u2, former)'.status = 200
               /\ (u2 # old) => \A q \in Passwords : login_outcome(old, q)'.status = 200)

C11_AuthenticationFollowsWrites ==
    /\ []C11_NeverRaw
    /\ [][C11_AfterRegister /\ C11_AfterModifyProfile]_vars

\* a member whose stored password encodes "pw2" has just logged in
C11_Witness ==
    /\ response.op = "login"
    /\ response.status = 302
    /\ logged_user_id # NoUser
    /\ \E salt \in Salts : members[logged_user_id].password = make_password("pw2", salt)

-----------------------------------------------------------------------------
(* C12: adding a friend *)

\* the two cases in which add_friend has to fail
C12_MustFail(user, username) ==
    MembersNamed(username) = {} \/ FriendsNamed(user, username) # {}

\* what one add_friend request of a logged member does to the relation; the
\* reverse edge is compared before and after for the targets of reverse_for
C12_AddFriendStep(reverse_for) ==
    (response'.op = "add_friend" /\ logged_user_id # NoUser) =>
        \A username \in Usernames \cup {""} :
            add_friend(username) =>
                IF C12_MustFail(logged_user_id, username)
                THEN /\ friends' = friends
                     /\ response'.message \in {<<MSG_REQUIRED>>, <<MSG_NO_SUCH_USER>>,
                                                <<MSG_ALREADY_FRIEND>>}
                ELSE \E target \in MembersNamed(username) :
                        /\ <<logged_user_id, target>> \notin friends
                        /\ friends' = friends \cup {<<logged_user_id, target>>}
                        /\ response'.message = <<MSG_FRIEND_ADDED>>
                        /\ target \in reverse_for =>
                               (<<target, logged_user_id>> \in friends'
                                   <=> <<target, logged_user_id>> \in friends)

\* C12 as stated: add_friend(A, t) fails and leaves the relation unchanged
\* when no member is named t or when t is already a friend of A; otherwise it
\* inserts exactly the edge A->t and the edge t->A is neither created nor
\* removed, whatever t is.
C12_ReverseEdgeUntouched == [][C12_AddFriendStep(MemberIds)]_vars

\* C12, amended: the same, the reverse edge being left alone for every target
\* other than A itself; a member who adds their own username gets the loop
\* A->A, which is its own reverse.
C12_AddFriendAsymmetric == [][C12_AddFriendStep(MemberIds \ {logged_user_id})]_vars

\* alice has added bob, and bob has not added alice
C12_Witness ==
    /\ response.op = "add_friend"
    /\ response.message = <<MSG_FRIEND_ADDED>>
    /\ response.member = 1
    /\ response.username = "bob"
    /\ <<1, 2>> \in friends
    /\ <<2, 1>> \notin friends

-----------------------------------------------------------------------------
(* C13: removing a friend *)

\* C13: remove_friend(A, t) removes the edge A->t when it exists and reports
\* that t was removed; when t is not a friend of A it reports that t is not in
\* the list and changes nothing; an empty target reports that there is nobody
\* to remove and changes nothing. Every request emits exactly one message,
\* raises nothing, and leaves A without an edge to t.
C13_RemoveFriendStep ==
    (response'.op = "remove_friend" /\ logged_user_id # NoUser) =>
        \A username \in Usernames \cup {""} :
            remove_friend(username) =>
                /\ response'.status = 200
                /\ Len(response'.message) = 1
                /\ FriendsNamed(logged_user_id, username)' = {}
                /\ IF username = "" THEN
                       /\ response'.message = <<MSG_NOTHING_TO_REMOVE>>
                       /\ friends' = friends
                   ELSE IF \E target \in MembersNamed(username) :
                              <<logged_user_id, target>> \in friends THEN
                       /\ response'.message = <<MSG_FRIEND_REMOVED>>
                       /\ \E target \in MembersNamed(username) :
                              friends' = friends \ {<<logged_user_id, target>>}
                   ELSE
                       /\ response'.message = <<MSG_NOT_FRIEND>>
                       /\ friends' = friends

C13_RemoveFriend == [][C13_RemoveFriendStep]_vars

\* alice has removed bob from her list while bob still has alice in his
C13_Witness ==
    /\ response.op = "remove_friend"
    /\ response.message = <<MSG_FRIEND_REMOVED>>
    /\ response.member = 1
    /\ response.username = "bob"
    /\ <<1, 2>> \notin friends
    /\ <<2, 1>> \in friends

-----------------------------------------------------------------------------
(* C20: ingredient lines of a saved recipe *)

\* the Ingredient table holds exactly one row per ingredient name that a
\* RecipeIngredient row uses
C20_OneRowPerName ==
    /\ \A a, b \in ingredients : a.name = b.name => a = b
    /\ {row.id : row \in ingredients} = {row.ingredient : row \in recipe_ingredient}

\* a saved add-recipe request with N ingredient lines attaches N new
\* RecipeIngredient rows to the new recipe, line i naming the ingredient of
\* row i, and touches the rows of no other recipe
C20_SavedLines ==
    (response'.op = "add_recipe" /\ response'.status = 302 /\ logged_user_id # NoUser) =>
        \A in \in AddRecipeInputs, saved \in 1..(Cardinality(RecipeIds) + 1) :
            (add_recipe(in[1], in[2], in[3], in[4]) /\ saved = response'.recipe) =>
                /\ Cardinality(RecipeIngredientsOf(saved)') = Len(in[3])
                /\ RecipeIngredientsOf(saved)' \cap recipe_ingredient = {}
                /\ recipe_ingredient \subseteq recipe_ingredient'
                /\ Cardinality(recipe_ingredient') = Cardinality(recipe_ingredient) + Len(in[3])
                /\ \A i \in 1..Len(in[3]) :
                       \E row \in RecipeIngredientsOf(saved)' :
                           /\ row.id = next_ri_id + i - 1
                           /\ \E ing \in ingredients' :
                                  ing.id = row.ingredient /\ ing.name = in[3][i]

\* C20: saving a recipe with N valid ingredient lines attaches exactly N
\* RecipeIngredient rows to it, one fresh row per line also for repeated
\* names, and after any sequence of saves the Ingredient table holds exactly
\* one row per distinct ingredient name used so far.
C20_IngredientLines == []C20_OneRowPerName /\ [][C20_SavedLines]_vars

\* a second recipe saved with the lines sel, carotte, sel: three rows for it,
\* four RecipeIngredient rows in all, two Ingredient rows
C20_Witness ==
    /\ response.op = "add_recipe"
    /\ response.status = 302
    /\ Cardinality(RecipeIngredientsOf(response.recipe)) = 3
    /\ Cardinality(recipe_ingredient) = 4
    /\ Cardinality(ingredients) = 2

-----------------------------------------------------------------------------
(* Search results *)

Range(list) == {list[i] : i \in 1..Len(list)}

\* how many times a row is in a result list
Occurrences(list, row) == Cardinality({i \in 1..Len(list) : list[i] = row})

NoCriteria(c) ==
    /\ c.title = "" /\ c.category = "" /\ c.collection_name = ""
    /\ c.member.scope = ""
    /\ c.ingredient_1 = "" /\ c.ingredient_2 = "" /\ c.ingredient_3 = ""

\* a list of recipes in ascending title order
InTitleOrder(list) ==
    \A i, j \in 1..Len(list) :
        i < j => Precedes(recipes[list[i]].title, recipes[list[j]].title)

\* C14: a search with no criteria at all returns every Recipe of the store
\* exactly once, in ascending title order, and no error; an invalid search
\* form gets the same full catalog.
C14_FullCatalog ==
    (/\ response.op = "search_recipe"
     /\ \/ NoCriteria(response.criteria)
        \/ ~SearchRecipeForm_clean(response.criteria, response.member)) =>
        /\ response.status = 200
        /\ response.entries = <<>>
        /\ \A id \in RecipeIds : Occurrences(response.recipes, id) = 1
        /\ Range(response.recipes) = RecipeIds
        /\ InTitleOrder(response.recipes)

\* the catalog of the three recipes, Tarte before soupe before tarte
C14_Witness ==
    /\ response.op = "search_recipe"
    /\ NoCriteria(response.criteria)
    /\ response.recipes = <<2, 1, 3>>

\* the criteria with one of the title, category or ingredient criteria taken out
Relaxations(c) ==
    {[c EXCEPT !.title = ""], [c EXCEPT !.category = ""], [c EXCEPT !.ingredient_1 = ""],
     [c EXCEPT !.ingredient_2 = ""], [c EXCEPT !.ingredient_3 = ""]} \ {c}

\* the criteria a valid search ran with
RanWith(reply) ==
    IF reply.op = "search_recipe"
    THEN SearchRecipeForm_cleaned(reply.criteria, reply.member)
    ELSE reply.criteria

\* the reply of a search or of a collection display whose form was valid
ValidSearch(reply) ==
    \/ reply.op = "search_recipe" /\ SearchRecipeForm_clean(reply.criteria, reply.member)
    \/ reply.op = "show_recipe_collection" /\ ShowRecipeCollectionForm_clean(reply.criteria)

\* C15: filtering is monotone. Whatever the store and the criteria, the rows
\* returned with a title, category or ingredient criterion are among the rows
\* returned without it: no row comes out more often with the criterion than
\* without, in the recipe space and in the collection entry space.
C15_FilteringMonotone ==
    ValidSearch(response) =>
        \A without \in Relaxations(RanWith(response)) :
            /\ \A id \in RecipeIds :
                   RanWith(response).collection_name = "" =>
                       Occurrences(response.recipes, id)
                           <= get_filtered_recipe_qs(without, response.member)[id]
            /\ \A id \in EntryIds :
                   RanWith(response).collection_name # "" =>
                       Occurrences(response.entries, id)
                           <= get_filtered_recipe_collection_qs(without, response.member)[id]

-----------------------------------------------------------------------------
(* C16: member scoping *)

\* the entries of a collection that a member criterion lets through for user
C16_Scope(collection_name, member, user) ==
    {e \in entries :
        /\ e.collection_name = collection_name
        /\ member.scope = "friends" => <<user, e.member>> \in friends
        /\ member.scope = "member" => e.member = member.id}

\* C16: with member = "friends" and a requesting user U the result is exactly
\* the entries whose member is in U's outgoing friends relation, members who
\* listed U without being listed by U being left out; with a specific member
\* it is exactly that member's entries; with no member it is unrestricted;
\* with member = "friends" and no requesting user, ValueError is raised. A
\* search scoped to friends returns only rows held by those friends.
C16_MemberScoping ==
    /\ response.op = "filter_by_member" =>
           IF response.criteria.member.scope = "friends" /\ response.member = NoUser
           THEN response.status = 500 /\ response.message = "ValueError"
           ELSE /\ response.status = 200
                /\ Range(response.entries) =
                       {e.id : e \in C16_Scope(response.criteria.collection_name,
                                               response.criteria.member, response.member)}
                /\ \A id \in Range(response.entries) :
                       Occurrences(response.entries, id) = 1
    /\ (/\ response.op = "search_recipe"
        /\ SearchRecipeForm_clean(response.criteria, response.member)
        /\ RanWith(response).member.scope = "friends") =>
           /\ \A id \in Range(response.entries) :
                  <<response.member, EntryById(id).member>> \in friends
           /\ \A id \in Range(response.recipes) :
                  \E e \in entries :
                      e.recipe = id /\ <<response.member, e.member>> \in friends

\* alice lists bob, carol lists alice: the album entries of alice's friends
\* are bob's two entries, carol's entry is left out
C16_Witness ==
    /\ response.op = "filter_by_member"
    /\ response.criteria.member.scope = "friends"
    /\ response.criteria.collection_name = "album"
    /\ response.member = 1
    /\ friends = {<<1, 2>>, <<3, 1>>}
    /\ response.entries = <<2, 4>>

-----------------------------------------------------------------------------
(* C17: ingredient terms *)

\* the criteria without their ingredient terms
WithoutTerms(c) ==
    [c EXCEPT !.ingredient_1 = "", !.ingredient_2 = "", !.ingredient_3 = ""]

\* the recipe has, for each non-empty term, an ingredient whose name contains it
C17_HasEachTerm(recipe_id, terms) ==
    \A i \in 1..3 :
        terms[i] # "" =>
            \E row \in RecipeIngredientsOf(recipe_id) :
                icontains(IngredientName(row.ingredient), terms[i])

\* C17: ingredient terms are ANDed independently. A recipe is in the result
\* iff, for each non-empty term of the three, it has at least one ingredient
\* whose name contains that term, letter case set aside; different terms may
\* be met by different ingredients and empty terms restrict nothing. The
\* same holds for the recipe of an entry in the collection entry space.
C17_IngredientTermsAnded ==
    ValidSearch(response) =>
        LET c == RanWith(response)
            terms == <<c.ingredient_1, c.ingredient_2, c.ingredient_3>>
        IN /\ c.collection_name = "" =>
                  \A id \in RecipeIds :
                      id \in Range(response.recipes) <=>
                          /\ get_filtered_recipe_qs(WithoutTerms(c), response.member)[id] > 0
                          /\ C17_HasEachTerm(id, terms)
           /\ c.collection_name # "" =>
                  \A id \in EntryIds :
                      id \in Range(response.entries) <=>
                          /\ get_filtered_recipe_collection_qs(WithoutTerms(c),
                                                               response.member)[id] > 0
                          /\ C17_HasEachTerm(EntryById(id).recipe, terms)

-----------------------------------------------------------------------------
(* C18: one row per recipe *)

\* C18: the result of get_filtered_recipe_collection_qs has at most one row
\* per recipe, for history at most one row per recipe and saving date, and
\* the row it keeps is the entry of lowest id of its group, also when several
\* members hold the recipe and when several ingredients of the recipe match
\* an ingredient term.
C18_OneRowPerRecipe ==
    (ValidSearch(response) /\ RanWith(response).collection_name # "") =>
        LET c == RanWith(response)
            found == response.entries
            scoped == filter_recipe_collection_by_member(
                          get_recipe_collection_by_sort_order(c.collection_name),
                          c.member, response.member)
        IN /\ \A i, j \in 1..Len(found) :
                  i # j => ~SameGroup(c.collection_name,
                                      EntryById(found[i]), EntryById(found[j]))
           /\ \A id \in Range(found), other \in scoped :
                  SameGroup(c.collection_name, EntryById(id), other) => id <= other.id

-----------------------------------------------------------------------------
(* C19: ordering of the results *)

\* a list of entries with the newest saving date first
NewestFirst(list) ==
    \A i, j \in 1..Len(list) :
        i < j => EntryById(list[i]).saving_date >= EntryById(list[j]).saving_date

\* a list of entries in ascending order of the title of their recipe
InRecipeTitleOrder(list) ==
    \A i, j \in 1..Len(list) :
        i < j => Precedes(recipes[EntryById(list[i]).recipe].title,
                          recipes[EntryById(list[j]).recipe].title)

\* C19: the entries returned for the collection history are in non-increasing
\* saving date order; for every other collection, and for the bare recipe
\* search, the rows are in ascending recipe title order; the member filter,
\* the deduplication and the title, category and ingredient filters keep the
\* order that get_recipe_collection_by_sort_order chose.
C19_ResultOrdering ==
    (response.op \in {"search_recipe", "show_recipe_collection", "filter_by_member"}
     /\ response.status = 200) =>
        /\ InTitleOrder(response.recipes)
        /\ IF response.criteria.collection_name = "history"
           THEN NewestFirst(response.entries)
           ELSE InRecipeTitleOrder(response.entries)

\* the history of everybody: the entry of date 2, then the two of date 1
C19_Witness ==
    /\ response.op = "search_recipe"
    /\ response.criteria.collection_name = "history"
    /\ response.entries = <<6, 8, 5>>

-----------------------------------------------------------------------------
(* C21: add_recipe writes everything or nothing *)

\* one of the forms of an add-recipe request does not validate
C21_SomeFormInvalid(title, category, lines, selection) ==
    \/ title = ""
    \/ \E id \in RecipeIds : recipes[id].title = title
    \/ category \notin Categories
    \/ lines = <<>>
    \/ \E i \in 1..Len(lines) : lines[i] = ""
    \/ selection = {}

\* a request answered with the form has written nothing and reports the
\* error of a form
C21_Rejected ==
    (response'.op = "add_recipe" /\ response'.status = 200) =>
        /\ recipes' = recipes
        /\ recipe_ingredient' = recipe_ingredient
        /\ ingredients' = ingredients
        /\ entries' = entries
        /\ response'.message \in {MSG_REQUIRED, MSG_TITLE_TAKEN, MSG_INVALID_CHOICE,
                                  MSG_NO_SELECTION}

\* a request that wrote had every form valid, and wrote the recipe, a row per
\* ingredient line and an entry per selected collection
C21_Saved ==
    (/\ response'.op = "add_recipe"
     /\ <<recipes, recipe_ingredient, ingredients, entries>>'
            # <<recipes, recipe_ingredient, ingredients, entries>>) =>
        \A in \in AddRecipeInputs, saved \in 1..(Cardinality(RecipeIds) + 1) :
            (add_recipe(in[1], in[2], in[3], in[4]) /\ saved = Cardinality(RecipeIds) + 1) =>
                /\ ~C21_SomeFormInvalid(in[1], in[2], in[3], in[4])
                /\ response'.status = 302
                /\ response'.recipe = saved
                /\ DOMAIN recipes' = RecipeIds \cup {saved}
                /\ recipes'[saved] = [title |-> in[1], category |-> in[2]]
                /\ Cardinality(RecipeIngredientsOf(saved)') = Len(in[3])
                /\ \A cn \in COLLECTIONS :
                       Count(cn, logged_user_id, saved)' = IF cn \in in[4] THEN 1 ELSE 0

\* C21: add_recipe is all-or-nothing with respect to validation. When the
\* recipe form, an ingredient line or the collection selection is invalid, a
\* used title included, the request writes no Recipe, no RecipeIngredient, no
\* Ingredient and no collection entry and answers 200 with the form; only
\* when every form is valid are the recipe, its ingredient rows and the
\* selected entries written.
C21_AllOrNothing == [][C21_Rejected /\ C21_Saved]_vars

\* a request refused for its title, already used by a recipe
C21_Witness ==
    /\ response.op = "add_recipe"
    /\ response.status = 200
    /\ response.message = MSG_TITLE_TAKEN
    /\ Cardinality(RecipeIds) = 1

-----------------------------------------------------------------------------
(* C22: filing a new recipe into the selected collections *)

\* a saved recipe had a non-empty selection S; the member has one entry for
\* it in each collection of S and none elsewhere; one confirmation was
\* emitted per collection of S
C22_Filed ==
    (response'.op = "add_recipe" /\ response'.status = 302 /\ logged_user_id # NoUser) =>
        \A in \in AddRecipeInputs, saved \in 1..(Cardinality(RecipeIds) + 1) :
            (add_recipe(in[1], in[2], in[3], in[4]) /\ saved = Cardinality(RecipeIds) + 1) =>
                /\ in[4] # {}
                /\ \A cn \in COLLECTIONS :
                       /\ Count(cn, logged_user_id, saved)' = IF cn \in in[4] THEN 1 ELSE 0
                       /\ create_recipe_collection_entry(in[4], cn)
                              <=> Count(cn, logged_user_id, saved)' > Count(cn, logged_user_id, saved)
                       /\ Cardinality({k \in 1..Len(response'.emitted) :
                                          response'.emitted[k] = MSG_RECIPE_FILED \o cn})
                              = IF cn \in in[4] THEN 1 ELSE 0
                /\ Len(response'.emitted) = Cardinality(in[4])
                /\ Cardinality(entries') = Cardinality(entries) + Cardinality(in[4])

\* the refusal for an empty selection comes from an empty selection and
\* writes nothing
C22_EmptySelection ==
    (response'.op = "add_recipe" /\ response'.message = MSG_NO_SELECTION) =>
        /\ <<recipes, recipe_ingredient, ingredients, entries>>'
               = <<recipes, recipe_ingredient, ingredients, entries>>
        /\ \A in \in AddRecipeInputs :
               add_recipe(in[1], in[2], in[3], in[4]) => in[4] = {}

\* C22: a new recipe is filed with a non-empty selection S of collections,
\* an empty one being refused with "Vous devez cocher au moins une option.";
\* afterwards the member has exactly one entry for the recipe in each
\* collection of S and none outside S, create_recipe_collection_entry returns
\* True iff it created an entry, and one confirmation is emitted per
\* collection of S.
C22_FiledInSelection == [][C22_Filed /\ C22_EmptySelection]_vars

\* a recipe filed into the album and the history: two entries, two messages
C22_Witness ==
    /\ response.op = "add_recipe"
    /\ response.message = "/show-confirmation-page"
    /\ response.emitted = <<MSG_RECIPE_FILED \o "album", MSG_RECIPE_FILED \o "history">>
    /\ Count("album", response.member, response.recipe) = 1
    /\ Count("history", response.member, response.recipe) = 1
    /\ Count("trials", response.member, response.recipe) = 0

-----------------------------------------------------------------------------
RouteOps ==
    {"add_to_collection", "remove_from_collection",
     "add_recipe_history", "remove_recipe_history"}

\* the reply in the next state is the one to a request of a method other
\* than POST on one of the four collection routes
C23_NonPostRequest ==
    /\ response'.op \in RouteOps
    /\ \/ \E in \in ModelRouteInputs :
             /\ in[1] # "POST"
             /\ \/ add_to_collection(in[1], in[2], in[3])
                \/ remove_from_collection(in[1], in[2], in[3])
       \/ \E method \in Methods \ {"POST"} :
             \/ MethodNotAllowed("add_recipe_history", method)
             \/ MethodNotAllowed("remove_recipe_history", method)

\* C23: a request of a method other than POST on add-to-collection,
\* remove-from-collection, add-recipe-history or remove-recipe-history is
\* answered 405 and creates or deletes no collection entry.
C23_NonPostRefused ==
    [][C23_NonPostRequest => (response'.status = 405 /\ entries' = entries)]_vars

-----------------------------------------------------------------------------
\* one of the identifiers of an add or remove request is missing or invalid,
\* or its action is neither add nor remove
C24_InvalidRequest(action, recipe_id, cn) ==
    \/ get_logged_user = NoUser
    \/ recipe_id = MissingId
    \/ cn = NoValue
    \/ cn \notin COLLECTIONS
    \/ recipe_id \notin RecipeIds
    \/ action \notin {"add", "remove"}

C24_Statuses ==
    response'.op \in {in[1] : in \in UpdateCollectionInputs} =>
        \A in \in UpdateCollectionInputs :
            update_collection(in[1], in[2], in[3]) =>
                /\ response'.status \in {200, 400, 500}
                /\ C24_InvalidRequest(in[1], in[2], in[3]) =>
                       (response'.status = 400 /\ store' = store)
                /\ response'.status = 500 => ~C24_InvalidRequest(in[1], in[2], in[3])

\* C24: an add or remove request with no logged-in user, no recipe id, no
\* collection name, an unknown collection name, a recipe id of no recipe or
\* another action is answered 400 and leaves the store as it was; 500 is
\* the answer to other failures only, 200 to every success and no-op.
C24_BadRequestIs400 == [][C24_Statuses]_vars

-----------------------------------------------------------------------------
\* no uploaded file has been compressed twice
C25_OncePerFile == \A u \in Uploads : media.compressed[u] <= 1

\* the call of compress_image by one save: one call on creation with an
\* image and on an update whose image is not the stored one, none otherwise
C25_SaveRule ==
    media'.saves = media.saves + 1 =>
        LET calls == {u \in Uploads : media'.compressed[u] # media.compressed[u]}
            expected ==
                \/ media.pk = NoPk /\ media.image # NoImage
                \/ media.pk # NoPk /\ media.image # NoImage
                                   /\ media.image.name # media.column
        IN
        /\ expected => /\ calls = {media.image.file}
                       /\ media'.compressed[media.image.file] =
                              media.compressed[media.image.file] + 1
        /\ ~expected => calls = {}

\* C25: Recipe.save compresses each image file exactly once: on creation
\* with an image and on an update whose image differs from the stored one;
\* a save with the image unchanged, also right after the creation, and a
\* save without image compress nothing.
C25_CompressedOnce == []C25_OncePerFile /\ [][C25_SaveRule]_vars

-----------------------------------------------------------------------------
\* C26: under every interleaving of concurrent register and modify_profile
\* requests no two members hold the same username, and under concurrent
\* add_recipe requests no two recipes hold the same title.
C26_NamesStayUnique ==
    /\ \A a, b \in MemberIds :
           a # b => members[a].username # members[b].username
    /\ \A a, b \in RecipeIds :
           a # b => recipes[a].title # recipes[b].title

-----------------------------------------------------------------------------
\* the data owned by member m: the collection entries of m, the friends
\* edges from m, the username and the password of m
OwnedBy(m) ==
    <<{e \in entries : e.member = m}, {f \in friends : f[1] = m}, members[m]>>

C27_OtherSession ==
    store' # store =>
        \A m \in MemberIds : logged_user_id # m => OwnedBy(m)' = OwnedBy(m)

\* C27: the data of a member are created, changed and deleted only by a
\* request of a session logged in as that member; a request with no
\* logged-in user or of another member changes none of them, the
\* add-recipe-history and remove-recipe-history routes included.
C27_OwnerOnly == [][C27_OtherSession]_vars

-----------------------------------------------------------------------------
\* the recipe of entry e passes the title, category and ingredient criteria
C28_MatchesCriteria(e, c) ==
    /\ MatchesRecipe(e.recipe, c)
    /\ \A i \in 1..3 :
           get_ingredient_inputs(c)[i] = "" \/
           MatchingIngredients(e.recipe, get_ingredient_inputs(c)[i]) # {}

\* C28: the member scope is applied before the collapse to one row per
\* recipe. When a collection is shown for a member, or for the friends of
\* the user, every recipe held in it by a member of the scope and matching
\* the other criteria is in the result through an entry of the scope, also
\* when a member outside the scope holds an entry of lower id for the recipe.
C28_ScopeBeforeCollapse ==
    (/\ ValidSearch(response)
     /\ RanWith(response).collection_name # ""
     /\ RanWith(response).member.scope # "") =>
        LET c == RanWith(response)
            scope == C16_Scope(c.collection_name, c.member, response.member)
        IN \A e \in scope :
               C28_MatchesCriteria(e, c) =>
                   \E id \in Range(response.entries) :
                       /\ EntryById(id) \in scope
                       /\ EntryById(id).recipe = e.recipe

\* the album of alice's friends: recipe 1 comes out through bob's entry 2,
\* although alice, who is outside the scope, holds it as entry 1
C28_Witness ==
    /\ response.op = "search_recipe"
    /\ response.member = 1
    /\ response.criteria.collection_name = "album"
    /\ response.criteria.member.scope = "friends"
    /\ 2 \in Range(response.entries)
    /\ \E e \in entries :
           /\ e.id < 2
           /\ e.collection_name = "album"
           /\ e.recipe = EntryById(2).recipe
           /\ <<1, e.member>> \notin friends

-----------------------------------------------------------------------------
\* every recipe has a RecipeIngredient row
C29_HasIngredient == \A id \in RecipeIds : RecipeIngredientsOf(id) # {}

\* a POST without ingredient line, or whose name, quantity and unit lists
\* differ in length
C29_NoLine(post) ==
    \/ ~post.has_name
    \/ post.name = <<>>
    \/ Len(post.name) # Len(post.quantity)
    \/ Len(post.quantity) # Len(post.unit)

\* a reply of add_recipe other than the form shown again with its error on
\* a store left as it was is the reply to no such POST of a logged user
C29_Rejected ==
    (/\ response'.op = "add_recipe"
     /\ logged_user_id # NoUser
     /\ ~(/\ response'.status = 200
          /\ response'.message = MSG_REQUIRED
          /\ store' = store)) =>
        \A post \in AddRecipePosts : C29_NoLine(post) => ~add_recipe_post(post)

\* C29: every recipe created through add_recipe has at least one
\* RecipeIngredient; a request with no ingredient line, or with name,
\* quantity and unit lists of unequal lengths, is rejected on its single
\* unbound ingredient form and writes no recipe.
C29_AtLeastOneIngredient == []C29_HasIngredient /\ [][C29_Rejected]_vars

\* a recipe saved from a POST with two complete ingredient lines
C29_Witness ==
    /\ response.op = "add_recipe"
    /\ response.status = 302
    /\ response.recipe \in RecipeIds
    /\ Cardinality(RecipeIngredientsOf(response.recipe)) = 2

-----------------------------------------------------------------------------
\* the entries whose (collection, member, recipe) is not (cn, m, r)
C30_Others(cn, m, r) == entries \ FilterEntries(cn, m, r)

\* an add or a remove leaves the members, the recipes and the friends edges
\* as they were, and every entry of another key
C30_Frame ==
    response'.op \in {"add", "remove"} =>
        /\ members' = members /\ recipes' = recipes /\ friends' = friends
        /\ ingredients' = ingredients /\ recipe_ingredient' = recipe_ingredient
        /\ entries' # entries =>
               \A in \in UpdateCollectionInputs :
                   update_collection(in[1], in[2], in[3]) =>
                       C30_Others(in[3], logged_user_id, in[2])' =
                           C30_Others(in[3], logged_user_id, in[2])

\* an add that created the entry of a key had no entry of the key before it
C30_AddCreates ==
    (response'.op = "add" /\ response'.message = MSG_ADDED) =>
        /\ FilterEntries(response'.collection_name, response'.member, response'.recipe) = {}
        /\ Cardinality(entries') = Cardinality(entries) + 1

\* the remove of the key that the request before it created takes the
\* entries back to those without the key, the ones before the add
C30_AddThenRemove ==
    (/\ response.op = "add" /\ response.message = MSG_ADDED
     /\ response'.op = "remove" /\ response'.status = 200
     /\ response'.collection_name = response.collection_name
     /\ response'.member = response.member
     /\ response'.recipe = response.recipe) =>
        /\ entries' = C30_Others(response.collection_name, response.member, response.recipe)
        /\ Cardinality(entries') = Cardinality(entries) - 1

\* is_in_album is true exactly when an entry of the key exists
C30_Status ==
    (response.op = "check_collection_status" /\ response.status = 200) =>
        (response.is_in_album <=>
            Count(response.collection_name, response.member, response.recipe) >= 1)

====
